---- MODULE Spec2Model ----
(***************************************************************************)
(* Context graph of the pyrometer analysis core: the Context node and its  *)
(* fork / kill / return state machine (shared/src/context/mod.rs) and the  *)
(* statement / expression interpreter that drives it                       *)
(* (src/context/mod.rs).                                                   *)
(*                                                                         *)
(* The graph is an arena: `nodes` is the vector of node payloads (a node's *)
(* index is its position, 1-based here), `edges` the vector of typed       *)
(* edges in insertion order.  Option<T> values are sequences of length     *)
(* at most one: None is <<>>, Some(x) is <<x>>.                            *)
(***************************************************************************)
EXTENDS Integers, Sequences, FiniteSets, TLC

VARIABLES nodes, edges, builtins, aborted

vars == <<nodes, edges, builtins, aborted>>

\* ------------------------------------------------------------------ bounds
\* Contexts in the graph under the context-API specification.
MaxCtx == 4
\* Return bindings per context under the context-API specification.
MaxRet == 1
\* Nodes in the graph under the interpreter specification.
MaxNodes == 6
\* The variables of the graph, in the assignment specification.
MaxVars == 3
\* Nodes in the graph under the variable-version specification.
MaxSsaNodes == 8
\* Nodes in the graph under the index-access specification.
MaxAccessNodes == 6
\* Nodes and edges of the graph under the graph-search specification.
MaxGraphNodes == 4
MaxGraphEdges == 3
\* Temporaries handed out per context under the context-record
\* specification.
MaxTmp == 1
\* Contexts in the graph under the context-record specifications.
MaxCtxRec == 3

\* Source locations of statements and kills.
Locs == {1, 2}

None == <<>>
Some(x) == <<x>>

\* ------------------------------------------------------------- Context
\* Context::new: the root context of a function entry.
Context_new(fn, loc) ==
    [kind |-> "Context", parent_fn |-> fn, parent_ctx |-> None,
     path |-> <<[k |-> fn, n |-> 0]>>, tmp_var_ctr |-> 0, killed |-> None,
     ctx_deps |-> {}, is_fork |-> FALSE, fn_call |-> None,
     ext_fn_call |-> None, forks |-> <<>>, children |-> <<>>, ret |-> <<>>,
     loc |-> loc]

\* The path segment format!("fork.{}", n) / format!("child.{}", n).
PathSeg(ns, p, is_fork) ==
    IF is_fork THEN [k |-> "fork", n |-> Len(ns[p].forks)]
               ELSE [k |-> "child", n |-> Len(ns[p].children)]

\* A faulty variant of new_subctx: the subcontext starts from a clean
\* slate instead of inheriting from its parent.
Context_new_subctx_fresh(ns, p, loc, is_fork) ==
    [kind |-> "Context", parent_fn |-> ns[p].parent_fn, parent_ctx |-> Some(p),
     path |-> Append(ns[p].path, PathSeg(ns, p, is_fork)),
     is_fork |-> is_fork, fn_call |-> None, ext_fn_call |-> None,
     ctx_deps |-> {}, killed |-> None, forks |-> <<>>,
     children |-> <<>>, tmp_var_ctr |-> 0, ret |-> <<>>,
     loc |-> loc]

\* Context::new_subctx (fn_call is always None here).
Context_new_subctx(ns, p, loc, is_fork) ==
    [kind |-> "Context", parent_fn |-> ns[p].parent_fn, parent_ctx |-> Some(p),
     path |-> Append(ns[p].path, PathSeg(ns, p, is_fork)),
     is_fork |-> is_fork, fn_call |-> None, ext_fn_call |-> None,
     ctx_deps |-> ns[p].ctx_deps, killed |-> None, forks |-> <<>>,
     children |-> <<>>, tmp_var_ctr |-> ns[p].tmp_var_ctr, ret |-> <<>>,
     loc |-> loc]

IsCtx(ns, i) == i \in 1..Len(ns) /\ ns[i].kind = "Context"

Ctxs(ns) == {i \in 1..Len(ns) : ns[i].kind = "Context"}

\* ContextNode::is_killed
is_killed(ns, c) == ns[c].killed # None

\* ContextNode::is_ended
is_ended(ns, c) == ns[c].killed # None \/ ns[c].ret # <<>>

\* A faulty variant: every fork, ended or not.
all_forks(ns, c) == ns[c].forks

\* ContextNode::live_forks: the forks that are not ended, in order.
live_forks(ns, c) == SelectSeq(ns[c].forks, LAMBDA f : ~is_ended(ns, f))

\* A faulty variant of add_fork: the new fork replaces the registered ones.
add_fork_replacing(ns, p, f) == [ns EXCEPT ![p].forks = <<f>>]

\* Context::add_fork through ContextNode::add_fork
add_fork(ns, p, f) == [ns EXCEPT ![p].forks = Append(@, f)]

\* Context::add_child through ContextNode::add_child
add_child(ns, p, c) == [ns EXCEPT ![p].children = Append(@, c)]

\* A faulty variant: the counter is read and not incremented.
new_tmp_no_increment(ns, c) ==
    [ret |-> ns[c].tmp_var_ctr, ns |-> ns]

\* ContextNode::new_tmp: the counter read, and the context with it
\* incremented.
new_tmp(ns, c) ==
    [ret |-> ns[c].tmp_var_ctr, ns |-> [ns EXCEPT ![c].tmp_var_ctr = @ + 1]]

\* The test of end_if_all_forks_ended: forks.iter().all(is_ended).
all_forks_ended(ns, c) ==
    \A i \in 1..Len(ns[c].forks) : is_ended(ns, ns[c].forks[i])

RECURSIVE end_if_all_forks_ended(_, _, _)

\* A faulty variant: one ended fork is enough to end the parent.
end_if_any_fork_ended(ns, c, kill_loc) ==
    IF \E i \in 1..Len(ns[c].forks) : is_ended(ns, ns[c].forks[i])
    THEN LET ns1 == [ns EXCEPT ![c].killed = Some(kill_loc)]
         IN  IF ns1[c].parent_ctx # None
             THEN end_if_all_forks_ended(ns1, ns1[c].parent_ctx[1], kill_loc)
             ELSE ns1
    ELSE ns

\* ContextNode::end_if_all_forks_ended
end_if_all_forks_ended(ns, c, kill_loc) ==
    IF all_forks_ended(ns, c)
    THEN LET ns1 == [ns EXCEPT ![c].killed = Some(kill_loc)]
         IN  IF ns1[c].parent_ctx # None
             THEN end_if_all_forks_ended(ns1, ns1[c].parent_ctx[1], kill_loc)
             ELSE ns1
    ELSE ns

\* A faulty variant: the kill is not propagated to the parent.
kill_no_propagation(ns, c, kill_loc) ==
    [ns EXCEPT ![c].killed = Some(kill_loc)]

\* ContextNode::kill
kill(ns, c, kill_loc) ==
    LET ns1 == [ns EXCEPT ![c].killed = Some(kill_loc)]
    IN  IF ns1[c].parent_ctx # None
        THEN end_if_all_forks_ended(ns1, ns1[c].parent_ctx[1], kill_loc)
        ELSE ns1

\* ContextNode::add_return_node
add_return_node(ns, c, ret_stmt_loc, v) ==
    [ns EXCEPT ![c].ret = Append(@, [loc |-> ret_stmt_loc, var |-> v])]

\* ------------------------------------------------------------ the store
\* The analyzer as the interpreter threads it: the graph, the builtin-type
\* registry, and whether a panic!/todo!/expect has aborted the process.
Store(ns, es, bs, ab) ==
    [nodes |-> ns, edges |-> es, builtins |-> bs, aborted |-> ab]

Cur == Store(nodes, edges, builtins, aborted)

add_node(S, n) == [S EXCEPT !.nodes = Append(@, n)]

add_edge(S, src, dst, k) ==
    [S EXCEPT !.edges = Append(@, [src |-> src, dst |-> dst, kind |-> k])]

Abort(S) == [S EXCEPT !.aborted = TRUE]

Commit(S) ==
    /\ Len(S.nodes) <= MaxNodes
    /\ Cardinality(Ctxs(S.nodes)) <= MaxCtx
    /\ nodes' = S.nodes
    /\ edges' = S.edges
    /\ builtins' = S.builtins
    /\ aborted' = S.aborted

\* ContextNode::parent_list: the parent, its parent, ... up to the root.
RECURSIVE parent_list(_, _)
parent_list(ns, c) ==
    IF ns[c].parent_ctx # None
    THEN <<ns[c].parent_ctx[1]>> \o parent_list(ns, ns[c].parent_ctx[1])
    ELSE <<>>

\* ContextNode::terminal_child_list: the leaves of the fork tree under c.
RECURSIVE terminal_child_list(_, _)
RECURSIVE terminal_child_lists(_, _)
terminal_child_lists(ns, forks) ==
    IF forks = <<>> THEN <<>>
    ELSE terminal_child_list(ns, Head(forks)) \o terminal_child_lists(ns, Tail(forks))

terminal_child_list(ns, c) ==
    IF ns[c].forks = <<>> THEN <<c>>
    ELSE terminal_child_lists(ns, ns[c].forks)

\* ------------------------------------------------------------- variables
\* A range bound: a concrete value, or a Dynamic reference to another
\* node's bound (Dynamic::new(node, side, loc)).
Concrete(v) == [tag |-> "Concrete", val |-> v]
Dynamic(idx, side, loc) == [tag |-> "Dynamic", idx |-> idx, side |-> side, loc |-> loc]

Range(lo, hi) == [min |-> lo, max |-> hi]

\* The values of the Concrete enum that indexing tells apart.
Concrete_Uint(v) == [kind |-> "Uint", val |-> v]
Concrete_Int(v) == [kind |-> "Int", val |-> v]
Concrete_Bool(b) == [kind |-> "Bool", val |-> b]

\* A ContextVar node: a builtin-typed variable with an optional range.
ContextVar(name, loc, range) ==
    [kind |-> "ContextVar", name |-> name, loc |-> Some(loc),
     ty |-> "BuiltIn", range |-> range, conc |-> None]

\* A ContextVar node of type VarType::Concrete holding the value conc: no
\* attached range.
ConcreteVarOf(loc, conc) ==
    [kind |-> "ContextVar", name |-> "lit", loc |-> Some(loc),
     ty |-> "Concrete", range |-> None, conc |-> Some(conc)]

\* The ContextVar node of a number literal (the literals of the model are
\* all the unsigned 5).
ConcreteVar(loc) == ConcreteVarOf(loc, Concrete_Uint(5))

\* A ContextVar node of a user-defined type: neither concrete nor builtin.
UserVar(name, loc) ==
    [kind |-> "ContextVar", name |-> name, loc |-> Some(loc),
     ty |-> "User", range |-> None, conc |-> None]

\* ContextVarNode::range
range(ns, v) == ns[v].range

\* ContextVarNode::set_range_min / set_range_max, one after the other.
set_range(S, v, lo, hi) == [S EXCEPT !.nodes[v].range = Some(Range(lo, hi))]

\* ------------------------------------------------------------- ExprRet
CtxKilled == [tag |-> "CtxKilled"]
Single(c, i) == [tag |-> "Single", ctx |-> c, idx |-> i]
Multi(items) == [tag |-> "Multi", items |-> items]
Fork(w1, w2) == [tag |-> "Fork", w1 |-> w1, w2 |-> w2]

\* What an evaluation yields: the analyzer after it and the ExprRet.
R(S, ret) == [s |-> S, ret |-> ret]

\* ---------------------------------------------------------- expressions
NumberLiteral(loc) ==
    [kind |-> "NumberLiteral", loc |-> loc, items |-> <<>>, name |-> ""]
List(items) == [kind |-> "List", loc |-> 1, items |-> items, name |-> ""]
ConditionalOperator(loc, t, f) ==
    [kind |-> "ConditionalOperator", loc |-> loc, items |-> <<t, f>>, name |-> ""]
Type(builtin) == [kind |-> "Type", loc |-> 1, items |-> <<>>, name |-> builtin]
Variable(ident) == [kind |-> "Variable", loc |-> 1, items |-> <<>>, name |-> ident]
Assign(loc, lhs_expr, rhs_expr) ==
    [kind |-> "Assign", loc |-> loc, items |-> <<lhs_expr, rhs_expr>>, name |-> ""]

\* A faulty variant of search_for_ancestor: only the edges of start itself
\* are looked at.
search_for_ancestor_no_descent(es, start, edge_ty) ==
    LET out == SelectSeq(es, LAMBDA e : e.src = start)
        direct == SelectSeq(out, LAMBDA e : e.kind = edge_ty)
    IN  IF direct # <<>> THEN Some(direct[1].dst) ELSE None

\* Search::search_for_ancestor: depth-first over outgoing edges, in the
\* order the edges are stored.
RECURSIVE search_for_ancestor(_, _, _)
search_for_ancestor(es, start, edge_ty) ==
    LET out == SelectSeq(es, LAMBDA e : e.src = start)
        direct == SelectSeq(out, LAMBDA e : e.kind = edge_ty)
    IN  IF direct # <<>>
        THEN Some(direct[1].dst)
        ELSE LET subs == [i \in 1..Len(out) |->
                            search_for_ancestor(es, out[i].dst, edge_ty)]
                 hits == SelectSeq(subs, LAMBDA r : r # None)
             IN  IF hits # <<>> THEN hits[1] ELSE None

\* A faulty variant of search_children: only edges of kind edge_ty are
\* walked backwards.
RECURSIVE search_children_same_kind(_, _, _)
search_children_same_kind(es, start, edge_ty) ==
    LET incoming == {i \in 1..Len(es) : es[i].dst = start /\ es[i].kind = edge_ty}
    IN  {es[i].src : i \in incoming}
            \cup UNION {search_children_same_kind(es, es[i].src, edge_ty) :
                           i \in incoming}

\* Search::search_children: the sources of the incoming edge_ty edges of
\* start and, recursively, of every source of an incoming edge of start.
RECURSIVE search_children(_, _, _)
search_children(es, start, edge_ty) ==
    LET incoming == {i \in 1..Len(es) : es[i].dst = start}
        this_children == {es[i].src : i \in {j \in incoming : es[j].kind = edge_ty}}
    IN  this_children
            \cup UNION {search_children(es, es[i].src, edge_ty) : i \in incoming}

\* The (key, value) entries of a BTreeMap held as a function.
map_entries(m) == {<<k, m[k]>> : k \in DOMAIN m}

\* A faulty variant of nodes_with_children: each key is mapped to
\* everything search_children finds from it, not to its direct sources only.
RECURSIVE nodes_with_children_transitive(_, _, _)
nodes_with_children_transitive(es, start, edge_ty) ==
    LET incoming == {i \in 1..Len(es) : es[i].dst = start}
        this_children == search_children(es, start, edge_ty)
        own == IF this_children # {} THEN {<<start, this_children>>} ELSE {}
        subs == UNION {map_entries(r[1]) :
                         r \in {nodes_with_children_transitive(es, es[i].src, edge_ty) :
                                   i \in incoming} \ {None}}
        entries == own \cup subs
        keys == {e[1] : e \in entries}
    IN  IF entries = {} THEN None
        ELSE Some([k \in keys |-> (CHOOSE e \in entries : e[1] = k)[2]])

\* Search::nodes_with_children: the map from start, and from every node met
\* walking incoming edges, to the sources of its direct incoming edge_ty
\* edges, for the nodes that have one; None when the map is empty.
RECURSIVE nodes_with_children(_, _, _)
nodes_with_children(es, start, edge_ty) ==
    LET incoming == {i \in 1..Len(es) : es[i].dst = start}
        this_children == {es[i].src : i \in {j \in incoming : es[j].kind = edge_ty}}
        own == IF this_children # {} THEN {<<start, this_children>>} ELSE {}
        subs == UNION {map_entries(r[1]) :
                         r \in {nodes_with_children(es, es[i].src, edge_ty) :
                                   i \in incoming} \ {None}}
        entries == own \cup subs
        keys == {e[1] : e \in entries}
    IN  IF entries = {} THEN None
        ELSE Some([k \in keys |-> (CHOOSE e \in entries : e[1] = k)[2]])

\* The elements of a BTreeSet of indices in iteration (ascending) order.
RECURSIVE in_order(_)
in_order(set) ==
    IF set = {} THEN <<>>
    ELSE LET lo == CHOOSE x \in set : \A y \in set : x <= y
         IN  <<lo>> \o in_order(set \ {lo})

RelativeTarget_Concrete(c) == [tag |-> "Concrete", conc |-> c]
RelativeTarget_Dynamic(idx) == [tag |-> "Dynamic", idx |-> idx]

\* An ArrayAccessAnalysis with analysis Relative(rel, target).
ArrayAccessAnalysis(arr_def, arr_loc, access_loc, rel, target, analysis_ty) ==
    [tag |-> "Analysis", arr_def |-> arr_def, arr_loc |-> arr_loc,
     access_loc |-> access_loc, rel |-> rel, target |-> target,
     analysis_ty |-> analysis_ty]

\* What the closure of min_size_to_prevent_access_revert yields when it
\* reaches a panic! or a failed expect.
Panicked == [tag |-> "Panic"]

\* ArrayAccessAnalyzer::min_size_to_prevent_access_revert, the closure
\* applied to one (array, access) pair.
access_analysis(S, array, access) ==
    LET indices == search_children(S.edges, access, "Index")
    IN  IF indices = {} THEN Panicked
        ELSE LET cvar_idx == CHOOSE x \in indices : \A y \in indices : x <= y
                 cvar == S.nodes[cvar_idx]
             IN  CASE cvar.ty = "Concrete" ->
                        IF cvar.conc[1].kind = "Uint"
                        THEN IF cvar.loc = None THEN Panicked
                             ELSE ArrayAccessAnalysis(array, S.nodes[array].loc,
                                      cvar.loc[1], "Gt",
                                      RelativeTarget_Concrete(cvar.conc[1]),
                                      "MinSize")
                        ELSE Panicked
                   [] cvar.ty = "BuiltIn" ->
                        IF cvar.loc = None THEN Panicked
                        ELSE IF cvar.range # None
                        THEN ArrayAccessAnalysis(array, S.nodes[array].loc,
                                 cvar.loc[1], "Gt",
                                 RelativeTarget_Dynamic(cvar_idx), "MinSize")
                        ELSE ArrayAccessAnalysis(array, S.nodes[array].loc,
                                 cvar.loc[1], "Gt",
                                 RelativeTarget_Dynamic(access), "MinSize")
                   [] OTHER -> Panicked

\* The records of the accesses of one array, in the order of the set.
access_analyses(S, array, accesses) ==
    [i \in 1..Len(accesses) |-> access_analysis(S, array, accesses[i])]

\* The records of the arrays of the map, in key order.
RECURSIVE array_analyses(_, _, _)
array_analyses(S, arrays, keys) ==
    IF keys = <<>> THEN <<>>
    ELSE access_analyses(S, Head(keys), in_order(arrays[Head(keys)]))
            \o array_analyses(S, arrays, Tail(keys))

\* ArrayAccessAnalyzer::min_size_to_prevent_access_revert: the vector of
\* records, and whether the pass panicked instead of returning it.
min_size_to_prevent_access_revert(S, ctx) ==
    LET arrays == nodes_with_children(S.edges, ctx, "IndexAccess")
        analyses == IF arrays = None THEN <<>>
                    ELSE array_analyses(S, arrays[1], in_order(DOMAIN arrays[1]))
    IN  IF \E i \in 1..Len(analyses) : analyses[i] = Panicked
        THEN [aborted |-> TRUE, analyses |-> <<>>]
        ELSE [aborted |-> FALSE, analyses |-> analyses]

\* ContextVarNode::maybe_ctx: the context the variable is a member of.
maybe_ctx(S, v) == search_for_ancestor(S.edges, v, "Variable")

\* BTreeSet iteration: the first element is the smallest index.
first_of(set) == CHOOSE x \in set : \A y \in set : x <= y

\* A faulty variant of var_by_name: every variable of that name in the
\* graph is a candidate, whichever context it is a member of.
var_by_name_any_ctx(S, ctx, name) ==
    LET hits == {v \in 1..Len(S.nodes) :
                   S.nodes[v].kind = "ContextVar" /\ S.nodes[v].name = name}
    IN  IF hits = {} THEN None ELSE Some(first_of(hits))

\* ContextNode::var_by_name
var_by_name(S, ctx, name) ==
    LET hits == {v \in search_children(S.edges, ctx, "Variable") :
                   S.nodes[v].name = name}
    IN  IF hits = {} THEN None ELSE Some(first_of(hits))

\* ContextVarNode::latest_version: the end of the chain of Prev edges that
\* point at the variable (the most recently created successor first).
RECURSIVE latest_version(_, _)
latest_version(S, v) ==
    LET next == {S.edges[i].src : i \in {j \in 1..Len(S.edges) :
                    S.edges[j].dst = v /\ S.edges[j].kind = "Prev"}}
    IN  IF next = {} THEN v
        ELSE latest_version(S, CHOOSE n \in next : \A m \in next : m <= n)

\* ContextNode::latest_var_by_name
latest_var_by_name(S, ctx, name) ==
    IF var_by_name(S, ctx, name) # None
    THEN Some(latest_version(S, var_by_name(S, ctx, name)[1]))
    ELSE None

\* A faulty variant of advance_var_in_ctx: the new version is always linked
\* to its predecessor, also when the variable crosses into another context.
advance_var_in_ctx_always_prev(S, cvar_node, loc, ctx) ==
    LET new_cvar == [S.nodes[cvar_node] EXCEPT !.loc = Some(loc)]
        S1 == add_node(S, new_cvar)
    IN  add_edge(S1, Len(S1.nodes), cvar_node, "Prev")

\* ContextBuilder::advance_var_in_ctx
advance_var_in_ctx(S, cvar_node, loc, ctx) ==
    LET new_cvar == [S.nodes[cvar_node] EXCEPT !.loc = Some(loc)]
        S1 == add_node(S, new_cvar)
        new_cvarnode == Len(S1.nodes)
        old_ctx == maybe_ctx(S, cvar_node)
    IN  IF old_ctx # None /\ old_ctx[1] # ctx
        THEN add_edge(S1, new_cvarnode, ctx, "Variable")
        ELSE add_edge(S1, new_cvarnode, cvar_node, "Prev")

\* A faulty variant of assign: the new bounds are always references to the
\* bounds of the right side.
assign_always_lazy(S, loc, lhs_cvar, rhs_cvar, ctx) ==
    IF S.aborted THEN R(S, CtxKilled)
    ELSE IF range(S.nodes, rhs_cvar) = None /\ range(S.nodes, lhs_cvar) = None
    THEN R(Abort(S), CtxKilled)
    ELSE LET S1 == advance_var_in_ctx(S, lhs_cvar, loc, ctx)
             new_lhs == Len(S1.nodes)
         IN  R(set_range(S1, new_lhs, Dynamic(rhs_cvar, "Min", loc),
                         Dynamic(rhs_cvar, "Max", loc)),
               Single(ctx, new_lhs))

\* A faulty variant of assign: when the right side has no range the new
\* version keeps the bounds the left side had.
assign_keeps_lhs_bounds(S, loc, lhs_cvar, rhs_cvar, ctx) ==
    IF S.aborted THEN R(S, CtxKilled)
    ELSE IF range(S.nodes, rhs_cvar) = None /\ range(S.nodes, lhs_cvar) = None
    THEN R(Abort(S), CtxKilled)
    ELSE LET rr == range(S.nodes, rhs_cvar)
             lr == range(S.nodes, lhs_cvar)
             lo == IF rr # None THEN rr[1].min ELSE lr[1].min
             hi == IF rr # None THEN rr[1].max ELSE lr[1].max
             S1 == advance_var_in_ctx(S, lhs_cvar, loc, ctx)
             new_lhs == Len(S1.nodes)
         IN  R(set_range(S1, new_lhs, lo, hi), Single(ctx, new_lhs))

\* A faulty variant of assign: the new bounds are written to the previous
\* version of the left side instead of the new one.
assign_in_place(S, loc, lhs_cvar, rhs_cvar, ctx) ==
    IF S.aborted THEN R(S, CtxKilled)
    ELSE IF range(S.nodes, rhs_cvar) = None /\ range(S.nodes, lhs_cvar) = None
    THEN R(Abort(S), CtxKilled)
    ELSE LET rr == range(S.nodes, rhs_cvar)
             lo == IF rr # None THEN rr[1].min ELSE Dynamic(rhs_cvar, "Min", loc)
             hi == IF rr # None THEN rr[1].max ELSE Dynamic(rhs_cvar, "Max", loc)
             S1 == advance_var_in_ctx(S, lhs_cvar, loc, ctx)
             new_lhs == Len(S1.nodes)
         IN  R(set_range(S1, lhs_cvar, lo, hi), Single(ctx, new_lhs))

\* ContextBuilder::assign
assign(S, loc, lhs_cvar, rhs_cvar, ctx) ==
    IF S.aborted THEN R(S, CtxKilled)
    ELSE IF range(S.nodes, rhs_cvar) = None /\ range(S.nodes, lhs_cvar) = None
    THEN R(Abort(S), CtxKilled)
    ELSE LET rr == range(S.nodes, rhs_cvar)
             lo == IF rr # None THEN rr[1].min
                   ELSE Dynamic(rhs_cvar, "Min", loc)
             hi == IF rr # None THEN rr[1].max
                   ELSE Dynamic(rhs_cvar, "Max", loc)
             S1 == advance_var_in_ctx(S, lhs_cvar, loc, ctx)
             new_lhs == Len(S1.nodes)
         IN  R(set_range(S1, new_lhs, lo, hi), Single(ctx, new_lhs))

RECURSIVE match_assign_sides(_, _, _, _, _)
RECURSIVE match_assign_sides_rhs(_, _, _, _, _, _)
RECURSIVE match_assign_sides_lhs(_, _, _, _, _, _)
RECURSIVE match_assign_sides_zip(_, _, _, _, _, _)

\* A faulty variant of the map over rhs_sides: l against the first element
\* only.
match_assign_sides_rhs_first(S, loc, l, rhs_sides, ctx, acc) ==
    IF rhs_sides = <<>> THEN R(S, Multi(acc))
    ELSE LET r == match_assign_sides(S, loc, l, Head(rhs_sides), ctx)
         IN  R(r.s, Multi(Append(acc, r.ret)))

\* match_assign_sides, the map over rhs_sides: l against every element.
match_assign_sides_rhs(S, loc, l, rhs_sides, ctx, acc) ==
    IF rhs_sides = <<>> THEN R(S, Multi(acc))
    ELSE LET r == match_assign_sides(S, loc, l, Head(rhs_sides), ctx)
         IN  match_assign_sides_rhs(r.s, loc, l, Tail(rhs_sides), ctx,
                                    Append(acc, r.ret))

\* A faulty variant of the map over lhs_sides: the elements are assigned
\* from the last to the first.
match_assign_sides_lhs_backwards(S, loc, lhs_sides, r, ctx, acc) ==
    IF lhs_sides = <<>> THEN R(S, Multi(acc))
    ELSE LET a == match_assign_sides(S, loc, lhs_sides[Len(lhs_sides)], r, ctx)
         IN  match_assign_sides_lhs(a.s, loc,
                                    SubSeq(lhs_sides, 1, Len(lhs_sides) - 1),
                                    r, ctx, <<a.ret>> \o acc)

\* match_assign_sides, the map over lhs_sides: every element against r.
match_assign_sides_lhs(S, loc, lhs_sides, r, ctx, acc) ==
    IF lhs_sides = <<>> THEN R(S, Multi(acc))
    ELSE LET a == match_assign_sides(S, loc, Head(lhs_sides), r, ctx)
         IN  match_assign_sides_lhs(a.s, loc, Tail(lhs_sides), r, ctx,
                                    Append(acc, a.ret))

\* A faulty variant of the zip: the whole left side against every element
\* of the right side, as for sides of unequal length.
match_assign_sides_cross(S, loc, lhs_sides, rhs_sides, ctx, acc) ==
    match_assign_sides_rhs(S, loc, Multi(lhs_sides), rhs_sides, ctx, acc)

\* match_assign_sides, the zip of two sides of the same length.
match_assign_sides_zip(S, loc, lhs_sides, rhs_sides, ctx, acc) ==
    IF lhs_sides = <<>> \/ rhs_sides = <<>> THEN R(S, Multi(acc))
    ELSE LET r == match_assign_sides(S, loc, Head(lhs_sides), Head(rhs_sides), ctx)
         IN  match_assign_sides_zip(r.s, loc, Tail(lhs_sides), Tail(rhs_sides),
                                    ctx, Append(acc, r.ret))

\* A faulty variant of the Fork against Fork arm: each left world against
\* the right world of the same side only.
match_assign_sides_forks_paired(S, loc, lhs_paths, rhs_paths, ctx) ==
    LET a == match_assign_sides(S, loc, lhs_paths.w1, rhs_paths.w1, ctx)
        d == match_assign_sides(a.s, loc, lhs_paths.w2, rhs_paths.w2, ctx)
    IN  R(d.s, Fork(a.ret, d.ret))

\* match_assign_sides, Fork against Fork: the four pairs of worlds, in the
\* order the boxes are built.
match_assign_sides_forks(S, loc, lhs_paths, rhs_paths, ctx) ==
    LET a == match_assign_sides(S, loc, lhs_paths.w1, rhs_paths.w1, ctx)
        b == match_assign_sides(a.s, loc, lhs_paths.w1, rhs_paths.w2, ctx)
        c == match_assign_sides(b.s, loc, lhs_paths.w2, rhs_paths.w1, ctx)
        d == match_assign_sides(c.s, loc, lhs_paths.w2, rhs_paths.w2, ctx)
    IN  R(d.s, Fork(Fork(a.ret, b.ret), Fork(c.ret, d.ret)))

\* match_assign_sides, Single or Multi against Fork: the left side against
\* each world of the right side.
match_assign_sides_worlds(S, loc, lhs_paths, rhs_paths, ctx) ==
    LET a == match_assign_sides(S, loc, lhs_paths, rhs_paths.w1, ctx)
        b == match_assign_sides(a.s, loc, lhs_paths, rhs_paths.w2, ctx)
    IN  R(b.s, Fork(a.ret, b.ret))

\* ContextBuilder::match_assign_sides
match_assign_sides(S, loc, lhs_paths, rhs_paths, ctx) ==
    IF S.aborted THEN R(S, CtxKilled)
    ELSE CASE lhs_paths.tag = "Single" /\ rhs_paths.tag = "Single" ->
                assign(S, loc, lhs_paths.idx, rhs_paths.idx, rhs_paths.ctx)
           [] lhs_paths.tag = "Single" /\ rhs_paths.tag = "Multi" ->
                match_assign_sides_rhs(S, loc, lhs_paths, rhs_paths.items, ctx, <<>>)
           [] lhs_paths.tag = "Multi" /\ rhs_paths.tag = "Single" ->
                match_assign_sides_lhs(S, loc, lhs_paths.items, rhs_paths, ctx, <<>>)
           [] lhs_paths.tag = "Multi" /\ rhs_paths.tag = "Multi" ->
                IF Len(lhs_paths.items) = Len(rhs_paths.items)
                THEN match_assign_sides_zip(S, loc, lhs_paths.items,
                                            rhs_paths.items, ctx, <<>>)
                ELSE match_assign_sides_rhs(S, loc, lhs_paths, rhs_paths.items,
                                            ctx, <<>>)
           [] lhs_paths.tag = "Fork" /\ rhs_paths.tag = "Fork" ->
                match_assign_sides_forks(S, loc, lhs_paths, rhs_paths, ctx)
           [] lhs_paths.tag \in {"Single", "Multi"} /\ rhs_paths.tag = "Fork" ->
                match_assign_sides_worlds(S, loc, lhs_paths, rhs_paths, ctx)
           [] OTHER -> R(Abort(S), CtxKilled)

\* ContextBuilder::match_var_def
RECURSIVE match_var_def(_, _, _, _)
RECURSIVE match_var_def_each(_, _, _, _)
match_var_def_each(S, loc, var, rets) ==
    IF rets = <<>> THEN S
    ELSE match_var_def_each(match_var_def(S, loc, var, Head(rets)),
                            loc, var, Tail(rets))

match_var_def(S, loc, var, rhs_paths) ==
    IF S.aborted THEN S
    ELSE CASE rhs_paths.tag = "CtxKilled" -> S
           [] rhs_paths.tag = "Single" ->
                LET S1 == add_node(S, var)
                    lhs == Len(S1.nodes)
                    S2 == add_edge(S1, lhs, rhs_paths.ctx, "Variable")
                    a == assign(S2, loc, lhs, rhs_paths.idx, rhs_paths.ctx)
                IN  IF a.s.aborted THEN a.s
                    ELSE add_edge(a.s, a.ret.idx, rhs_paths.ctx, "Variable")
           [] rhs_paths.tag = "Multi" ->
                match_var_def_each(S, loc, var, rhs_paths.items)
           [] rhs_paths.tag = "Fork" ->
                match_var_def(match_var_def(S, loc, var, rhs_paths.w1),
                              loc, var, rhs_paths.w2)

\* A faulty variant of add_ctx_dep: the binding is recorded whether or not
\* the variable is symbolic.
add_ctx_dep_always(ns, c, dep) ==
    [ns EXCEPT ![c].ctx_deps =
        {d \in @ : d.name # ns[dep].name}
            \cup {[name |-> ns[dep].name, var |-> dep]}]

\* A faulty variant of add_ctx_dep: the binding is recorded in the context
\* and in its parent.
add_ctx_dep_shared(ns, c, dep) ==
    add_ctx_dep_always(
        IF ns[c].parent_ctx # None
        THEN add_ctx_dep_always(ns, ns[c].parent_ctx[1], dep)
        ELSE ns,
        c, dep)

\* ContextNode::add_ctx_dep, for a variable that is symbolic.
add_ctx_dep(ns, c, dep) ==
    IF ns[dep].ty = "BuiltIn"
    THEN [ns EXCEPT ![c].ctx_deps =
            {d \in @ : d.name # ns[dep].name}
                \cup {[name |-> ns[dep].name, var |-> dep]}]
    ELSE ns

\* The fork step of the conditional operator: a subcontext of ctx is
\* created as a fork, added to the graph, registered in ctx.forks, and
\* given the condition variable as a ctx_dep.
fork_ctx(S, ctx, loc, cond) ==
    LET S1 == add_node(S, Context_new_subctx(S.nodes, ctx, loc, TRUE))
        f == Len(S1.nodes)
    IN  [S1 EXCEPT !.nodes = add_ctx_dep(add_fork(S1.nodes, ctx, f), f, cond)]

RECURSIVE parse_ctx_expr(_, _, _)
RECURSIVE parse_ctx_expr_inner(_, _, _)
RECURSIVE parse_ctx_expr_forks(_, _, _)
RECURSIVE list(_, _, _, _)

\* ContextBuilder::parse_ctx_expr, the loop over the live forks.
parse_ctx_expr_forks(S, expr, forks) ==
    IF forks = <<>> THEN S
    ELSE parse_ctx_expr_forks(parse_ctx_expr(S, expr, Head(forks)).s,
                              expr, Tail(forks))

\* The list resolver: every element is evaluated in ctx, in order, and the
\* results are returned as a Multi.
list(S, ctx, params, acc) ==
    IF params = <<>> THEN R(S, Multi(acc))
    ELSE LET r == parse_ctx_expr(S, Head(params), ctx)
         IN  list(r.s, ctx, Tail(params), Append(acc, r.ret))

\* The number-literal resolver: a concrete variable bound to ctx.
number_literal(S, ctx, loc) ==
    LET S1 == add_node(S, ConcreteVar(loc))
    IN  R(add_edge(S1, Len(S1.nodes), ctx, "Variable"), Single(ctx, Len(S1.nodes)))

\* The ternary resolver: ctx is forked in two, each arm is evaluated in its
\* own fork, and the two results are returned as a Fork.
cond_op_expr(S, loc, true_expr, false_expr, ctx) ==
    LET S1 == fork_ctx(S, ctx, loc, 2)
        t == Len(S1.nodes)
        S2 == fork_ctx(S1, ctx, loc, 2)
        f == Len(S2.nodes)
        r1 == parse_ctx_expr(S2, true_expr, t)
        r2 == parse_ctx_expr(r1.s, false_expr, f)
    IN  R(r2.s, Fork(r1.ret, r2.ret))

\* The identifier resolver: the latest version of the name in ctx, or else
\* in the nearest enclosing context that has one.
variable(S, ident, ctx) ==
    LET scopes == <<ctx>> \o parent_list(S.nodes, ctx)
        found == SelectSeq(scopes,
                           LAMBDA c : latest_var_by_name(S, c, ident) # None)
    IN  IF found = <<>> THEN R(Abort(S), CtxKilled)
        ELSE R(S, Single(ctx, latest_var_by_name(S, found[1], ident)[1]))

\* ContextBuilder::assign_exprs
assign_exprs(S, loc, lhs_expr, rhs_expr, ctx) ==
    LET l == parse_ctx_expr(S, lhs_expr, ctx)
        r == parse_ctx_expr(l.s, rhs_expr, ctx)
    IN  match_assign_sides(r.s, loc, l.ret, r.ret, ctx)

\* ContextBuilder::parse_ctx_expr_inner, the arms the model evaluates.
parse_ctx_expr_inner(S, expr, ctx) ==
    CASE expr.kind = "NumberLiteral" -> number_literal(S, ctx, expr.loc)
      [] expr.kind = "Variable" -> variable(S, expr.name, ctx)
      [] expr.kind = "Assign" ->
            assign_exprs(S, expr.loc, expr.items[1], expr.items[2], ctx)
      [] expr.kind = "List" -> list(S, ctx, expr.items, <<>>)
      [] expr.kind = "ConditionalOperator" ->
            cond_op_expr(S, expr.loc, expr.items[1], expr.items[2], ctx)
      [] expr.kind = "Type" ->
            IF \E b \in S.builtins : b.name = expr.name
            THEN R(S, Single(ctx, (CHOOSE b \in S.builtins : b.name = expr.name).idx))
            ELSE LET S1 == add_node(S, [kind |-> "Builtin", name |-> expr.name])
                     idx == Len(S1.nodes)
                 IN  R([S1 EXCEPT !.builtins = @ \cup {[name |-> expr.name, idx |-> idx]}],
                       Single(ctx, idx))

\* ContextBuilder::parse_ctx_expr
parse_ctx_expr(S, expr, ctx) ==
    IF S.aborted THEN R(S, CtxKilled)
    ELSE IF is_killed(S.nodes, ctx) THEN R(S, CtxKilled)
    ELSE IF live_forks(S.nodes, ctx) = <<>>
    THEN parse_ctx_expr_inner(S, expr, ctx)
    ELSE R(parse_ctx_expr_forks(S, expr, live_forks(S.nodes, ctx)), Multi(<<>>))

\* ----------------------------------------------------------- statements
Stmt(kind, loc, name, expr, body, els) ==
    [kind |-> kind, loc |-> loc, name |-> name, expr |-> expr,
     body |-> body, els |-> els]

Block(statements) == Stmt("Block", 1, "", None, statements, <<>>)
VariableDefinition(loc, name, maybe_expr) ==
    Stmt("VariableDefinition", loc, name, maybe_expr, <<>>, <<>>)
If(loc, true_stmt, maybe_false) == Stmt("If", loc, "", None, <<true_stmt>>, maybe_false)
Expression(expr) == Stmt("Expression", 1, "", Some(expr), <<>>, <<>>)
Return(loc, maybe_expr) == Stmt("Return", loc, "", maybe_expr, <<>>, <<>>)
Revert(loc) == Stmt("Revert", loc, "", None, <<>>, <<>>)
While(loc) == Stmt("While", loc, "", None, <<>>, <<>>)
For(loc) == Stmt("For", loc, "", None, <<>>, <<>>)
DoWhile(loc) == Stmt("DoWhile", loc, "", None, <<>>, <<>>)
Assembly(loc) == Stmt("Assembly", loc, "", None, <<>>, <<>>)
Try(loc) == Stmt("Try", loc, "", None, <<>>, <<>>)
Emit(loc) == Stmt("Emit", loc, "", None, <<>>, <<>>)
RevertNamedArgs(loc) == Stmt("RevertNamedArgs", loc, "", None, <<>>, <<>>)

\* The Return arm on the ExprRet of the return expression, in one context.
RECURSIVE return_multi(_, _, _)
return_multi(S, loc, rets) ==
    IF rets = <<>> \/ S.aborted THEN S
    ELSE IF Head(rets).tag # "Single" THEN Abort(S)
    ELSE LET S1 == add_edge(S, Head(rets).idx, Head(rets).ctx, "Return")
         IN  return_multi(
                [S1 EXCEPT !.nodes =
                    add_return_node(@, Head(rets).ctx, loc, Head(rets).idx)],
                loc, Tail(rets))

return_paths(S, loc, paths) ==
    IF S.aborted THEN S
    ELSE CASE paths.tag = "CtxKilled" -> S
           [] paths.tag = "Single" ->
                LET S1 == add_edge(S, paths.idx, paths.ctx, "Return")
                IN  [S1 EXCEPT !.nodes = add_return_node(@, paths.ctx, loc, paths.idx)]
           [] paths.tag = "Multi" -> return_multi(S, loc, paths.items)
           [] paths.tag = "Fork" -> Abort(S)

RECURSIVE parse_ctx_statement(_, _, _)
RECURSIVE parse_ctx_stmt_inner(_, _, _)
RECURSIVE stmt_inner_forks(_, _, _)
RECURSIVE block_stmts(_, _, _)
RECURSIVE block_forks(_, _, _)
RECURSIVE var_def_forks(_, _, _)
RECURSIVE if_forks(_, _, _)
RECURSIVE return_forks(_, _, _)
RECURSIVE revert_forks(_, _, _)

\* parse_ctx_statement: the loop over the live forks.
stmt_inner_forks(S, stmt, forks) ==
    IF forks = <<>> THEN S
    ELSE stmt_inner_forks(parse_ctx_stmt_inner(S, stmt, Head(forks)),
                          stmt, Tail(forks))

\* Block arm: the statements of the block, in order, on one context.
block_stmts(S, statements, ctx) ==
    IF statements = <<>> THEN S
    ELSE block_stmts(parse_ctx_statement(S, Head(statements), ctx),
                     Tail(statements), ctx)

block_forks(S, statements, forks) ==
    IF forks = <<>> THEN S
    ELSE block_forks(block_stmts(S, statements, Head(forks)),
                     statements, Tail(forks))

\* VariableDefinition arm on one context: the declared type is resolved,
\* then the variable is bound, through match_var_def when initialised.
var_def_in(S, stmt, ctx) ==
    IF S.aborted THEN S
    ELSE LET r == parse_ctx_expr(S, Type("uint"), ctx)
         IN  IF r.s.aborted THEN r.s
             ELSE IF r.ret.tag # "Single" THEN Abort(r.s)
             ELSE LET var == ContextVar(stmt.name, stmt.loc,
                                        Some(Range(Concrete(0), Concrete(255))))
                  IN  IF stmt.expr # None
                      THEN LET r2 == parse_ctx_expr(r.s, stmt.expr[1], ctx)
                           IN  match_var_def(r2.s, stmt.loc, var, r2.ret)
                      ELSE LET S1 == add_node(r.s, var)
                           IN  add_edge(S1, Len(S1.nodes), r.ret.ctx, "Variable")

var_def_forks(S, stmt, forks) ==
    IF forks = <<>> THEN S
    ELSE var_def_forks(var_def_in(S, stmt, Head(forks)), stmt, Tail(forks))

\* The conditional statement: ctx is forked in a true and a false
\* subcontext, each with the condition as a ctx_dep, and each arm is
\* applied under its own fork.
cond_op_stmt(S, loc, true_stmt, maybe_false, ctx) ==
    IF S.aborted THEN S
    ELSE LET S1 == fork_ctx(S, ctx, loc, 2)
             t == Len(S1.nodes)
             S2 == fork_ctx(S1, ctx, loc, 2)
             f == Len(S2.nodes)
             S3 == parse_ctx_statement(S2, true_stmt, t)
         IN  IF maybe_false # <<>>
             THEN parse_ctx_statement(S3, maybe_false[1], f)
             ELSE S3

if_forks(S, stmt, forks) ==
    IF forks = <<>> THEN S
    ELSE if_forks(cond_op_stmt(S, stmt.loc, stmt.body[1], stmt.els, Head(forks)),
                  stmt, Tail(forks))

return_forks(S, stmt, forks) ==
    IF forks = <<>> THEN S
    ELSE LET r == parse_ctx_expr(S, stmt.expr[1], Head(forks))
         IN  return_forks(return_paths(r.s, stmt.loc, r.ret), stmt, Tail(forks))

\* A faulty variant: only the first live fork is killed.
revert_forks_first_only(S, loc, forks) ==
    IF forks = <<>> THEN S
    ELSE [S EXCEPT !.nodes = kill(@, Head(forks), loc)]

\* parse_ctx_stmt_inner, the Revert arm: every live fork is killed.
revert_forks(S, loc, forks) ==
    IF forks = <<>> THEN S
    ELSE revert_forks([S EXCEPT !.nodes = kill(@, Head(forks), loc)],
                      loc, Tail(forks))

\* The statement kinds whose arm is empty: loops, assembly, try and emit.
UnsupportedKinds == {"While", "For", "DoWhile", "Assembly", "Try", "Emit"}

\* A faulty variant: a statement that is not interpreted ends its path.
unsupported_stmt_kills(S, stmt, ctx) ==
    [S EXCEPT !.nodes = kill(@, ctx, stmt.loc)]

\* parse_ctx_stmt_inner, the arms with an empty body `=> {}`.
unsupported_stmt(S, stmt, ctx) ==
    S

\* ContextBuilder::parse_ctx_stmt_inner, on a context node.
parse_ctx_stmt_inner(S, stmt, ctx) ==
    IF S.aborted THEN S
    ELSE LET forks == live_forks(S.nodes, ctx)
         IN  CASE stmt.kind = "Block" ->
                    IF forks = <<>> THEN block_stmts(S, stmt.body, ctx)
                    ELSE block_forks(S, stmt.body, forks)
               [] stmt.kind = "VariableDefinition" ->
                    IF forks = <<>> THEN var_def_in(S, stmt, ctx)
                    ELSE var_def_forks(S, stmt, forks)
               [] stmt.kind = "If" ->
                    IF forks = <<>>
                    THEN cond_op_stmt(S, stmt.loc, stmt.body[1], stmt.els, ctx)
                    ELSE if_forks(S, stmt, forks)
               [] stmt.kind = "Expression" ->
                    parse_ctx_expr(S, stmt.expr[1], ctx).s
               [] stmt.kind = "Return" ->
                    IF stmt.expr = None THEN S
                    ELSE IF forks = <<>>
                    THEN LET r == parse_ctx_expr(S, stmt.expr[1], ctx)
                         IN  return_paths(r.s, stmt.loc, r.ret)
                    ELSE return_forks(S, stmt, forks)
               [] stmt.kind = "Revert" ->
                    IF forks = <<>>
                    THEN [S EXCEPT !.nodes = kill(@, ctx, stmt.loc)]
                    ELSE revert_forks(S, stmt.loc, forks)
               [] stmt.kind \in UnsupportedKinds -> unsupported_stmt(S, stmt, ctx)
               [] stmt.kind = "RevertNamedArgs" -> S
               [] OTHER -> S

\* ContextBuilder::parse_ctx_statement, on a context node.
parse_ctx_statement(S, stmt, ctx) ==
    IF S.aborted THEN S
    ELSE IF is_killed(S.nodes, ctx) THEN S
    ELSE IF live_forks(S.nodes, ctx) = <<>>
    THEN parse_ctx_stmt_inner(S, stmt, ctx)
    ELSE stmt_inner_forks(S, stmt, live_forks(S.nodes, ctx))

\* ------------------------------------------------------------------ Init
\* One function entry: its root context (node 1) and one named parameter x
\* (node 2), a ranged variable bound to the root by a Variable edge.
Init ==
    /\ nodes = <<Context_new("f", 1),
                 ContextVar("x", 1, Some(Range(Concrete(0), Concrete(10))))>>
    /\ edges = <<[src |-> 2, dst |-> 1, kind |-> "Variable"]>>
    /\ builtins = {}
    /\ aborted = FALSE

\* --------------------------------------------------- context API actions
\* ContextNode::kill called on a context.
Kill(c, loc) ==
    /\ ~aborted
    /\ IsCtx(nodes, c)
    /\ nodes' = kill(nodes, c, loc)
    /\ UNCHANGED <<edges, builtins, aborted>>

\* ContextNode::add_return_node called on a context with a variable node.
AddReturnNode(c, loc, v) ==
    /\ ~aborted
    /\ IsCtx(nodes, c)
    /\ v \in 1..Len(nodes) /\ nodes[v].kind = "ContextVar"
    /\ Len(nodes[c].ret) < MaxRet
    /\ nodes' = add_return_node(nodes, c, loc, v)
    /\ UNCHANGED <<edges, builtins, aborted>>

\* A subcontext of p is created as a fork, added to the graph and
\* registered in p.forks (new_subctx, add_node, add_fork).
ForkCtx(p) ==
    /\ ~aborted
    /\ IsCtx(nodes, p)
    /\ LET S1 == add_node(Cur, Context_new_subctx(nodes, p, 1, TRUE))
       IN  Commit([S1 EXCEPT !.nodes = add_fork(@, p, Len(S1.nodes))])

NodeIds == 1..MaxNodes

Next ==
    \/ \E p \in NodeIds : ForkCtx(p)
    \/ \E c \in NodeIds : Kill(c, 1)
    \/ \E c \in NodeIds, v \in NodeIds : AddReturnNode(c, 1, v)

Spec == Init /\ [][Next]_vars

\* --------------------------------------------------- interpreter actions
\* The statements and expressions the interpreter is driven with.
Exprs ==
    {NumberLiteral(1),
     List(<<NumberLiteral(1), NumberLiteral(1)>>),
     ConditionalOperator(1, NumberLiteral(1), NumberLiteral(1))}

IfRevert(loc) == If(1, Block(<<Revert(loc)>>), <<>>)

Stmts ==
    {Revert(l) : l \in Locs}
        \cup {Return(1, Some(e)) : e \in Exprs}
        \cup {Return(1, None), While(1), IfRevert(2),
              VariableDefinition(1, "y", None),
              VariableDefinition(1, "y", Some(NumberLiteral(1))),
              Expression(NumberLiteral(1)),
              Block(<<IfRevert(2), VariableDefinition(1, "y", None)>>)}

\* parse_ctx_statement applied to a context.
ParseCtxStatement(stmt, c) ==
    /\ ~aborted
    /\ IsCtx(nodes, c)
    /\ Commit(parse_ctx_statement(Cur, stmt, c))

\* parse_ctx_expr applied to a context.
ParseCtxExpr(expr, c) ==
    /\ ~aborted
    /\ IsCtx(nodes, c)
    /\ Commit(parse_ctx_expr(Cur, expr, c).s)

NextInterp ==
    \/ \E p \in NodeIds : ForkCtx(p)
    \/ \E stmt \in Stmts, c \in NodeIds : ParseCtxStatement(stmt, c)
    \/ \E expr \in Exprs, c \in NodeIds : ParseCtxExpr(expr, c)

SpecInterp == Init /\ [][NextInterp]_vars

\* ------------------------------------------- statement-kind actions
\* One statement of every kind the interpreter has an arm for that ends
\* a path or is left uninterpreted, and a declaration.
KindStmts ==
    {While(1), For(1), DoWhile(1), Assembly(1), Try(1), Emit(1),
     Revert(1), RevertNamedArgs(2),
     Return(2, None), Return(2, Some(NumberLiteral(1))),
     VariableDefinition(1, "y", None)}

NextStmt ==
    \/ \E p \in NodeIds : ForkCtx(p)
    \/ \E stmt \in KindStmts, c \in NodeIds : ParseCtxStatement(stmt, c)

SpecStmt == Init /\ [][NextStmt]_vars

\* ---------------------------------------------------------------- claims
\* Ended, from the fields: killed is set or ret is non-empty.
EndedIn(ns, x) == ns[x].killed # <<>> \/ Len(ns[x].ret) > 0

AllForksEndedIn(ns, x) ==
    \A i \in 1..Len(ns[x].forks) : EndedIn(ns, ns[x].forks[i])

ForkSet(ns, x) == {ns[x].forks[i] : i \in 1..Len(ns[x].forks)}

\* The k-th ancestor of c is tested by kill(c) when every ancestor below it
\* was marked, that is, had all its forks ended.
TestedByKill(ns, pl, k) == \A j \in 1..(k - 1) : AllForksEndedIn(ns, pl[j])

C2_LastForkKills ==
    \A p \in Ctxs(nodes), loc \in Locs :
        (Len(nodes[p].forks) >= 2 /\ nodes[p].killed = <<>>) =>
            \A f \in ForkSet(nodes, p) :
                \A post \in {kill(nodes, f, loc)},
                   others \in {ForkSet(nodes, p) \ {f}} :
                    /\ (post[p].killed # <<>>) <=>
                            (\A g \in others : EndedIn(nodes, g))
                    /\ (\E g \in ForkSet(nodes, p) : ~EndedIn(post, g))
                            => post[p].killed = <<>>
                    /\ post[p].killed \in {<<>>, <<loc>>}

\* C2 witness: a context with 3 forks, two of them killed and itself not
\* killed, which the kill of the third fork kills.
C2_Witness ==
    \E p \in Ctxs(nodes) :
        /\ Len(nodes[p].forks) = 3
        /\ nodes[p].killed = <<>>
        /\ nodes[nodes[p].forks[1]].killed # <<>>
        /\ nodes[nodes[p].forks[3]].killed # <<>>
        /\ ~EndedIn(nodes, nodes[p].forks[2])
        /\ kill(nodes, nodes[p].forks[2], 2)[p].killed = <<2>>

\* ----------------------------------------------------------- assignment
\* The variables of the graph.
CVars(ns) == {v \in 1..Len(ns) : ns[v].kind = "ContextVar"}

\* The ExprRet values an evaluation in c may hand to match_assign_sides as
\* its left side, over two variables: a variable, a list of two, the two
\* worlds of a ternary.
LhsRets(c, a, b) ==
    {Single(c, a), Multi(<<Single(c, a), Single(c, b)>>),
     Fork(Single(c, a), Single(c, b))}

\* The same for its right side, with a list of one and Killed.
RhsRets(c, a, b) ==
    LhsRets(c, a, b) \cup {CtxKilled, Multi(<<Single(c, a)>>)}

\* The analyzer after an evaluation becomes the state, within the bounds.
CommitVars(S) ==
    /\ Cardinality(CVars(S.nodes)) <= MaxVars
    /\ Commit(S)

\* A number literal evaluated in a context.
EvalLiteral(c) ==
    /\ ~aborted
    /\ IsCtx(nodes, c)
    /\ CommitVars(parse_ctx_expr(Cur, NumberLiteral(1), c).s)

\* match_assign_sides applied to two sides evaluated in c.
MatchAssignSides(c) ==
    /\ ~aborted
    /\ IsCtx(nodes, c)
    /\ \E a \in CVars(nodes), b \in CVars(nodes) :
          \E lhs_paths \in LhsRets(c, a, b), rhs_paths \in RhsRets(c, b, a) :
              CommitVars(match_assign_sides(Cur, 2, lhs_paths, rhs_paths, c).s)

NextAssign ==
    \/ ForkCtx(1)
    \/ \E c \in NodeIds : EvalLiteral(c)
    \/ \E c \in NodeIds : MatchAssignSides(c)

SpecAssign == Init /\ [][NextAssign]_vars

\* ------------------------------------------- variable-version actions
\* The statement `x = rhs;` at loc.
WriteX(loc, rhs_expr) == Expression(Assign(loc, Variable("x"), rhs_expr))

\* The right sides written to x: x itself and a number literal.
SsaRhs == {Variable("x"), NumberLiteral(1)}

\* The root context is forked (one more branch alternative).
ForkRoot ==
    /\ ~aborted
    /\ Len(nodes) < MaxSsaNodes
    /\ ForkCtx(1)

\* The statement `x = rhs;` applied to a context.
WriteVar(loc, rhs_expr, c) ==
    /\ ~aborted
    /\ IsCtx(nodes, c)
    /\ \A post \in {parse_ctx_statement(Cur, WriteX(loc, rhs_expr), c)} :
          /\ Len(post.nodes) <= MaxSsaNodes
          /\ nodes' = post.nodes
          /\ edges' = post.edges
          /\ builtins' = post.builtins
          /\ aborted' = post.aborted

NextSsa ==
    \/ ForkRoot
    \/ \E loc \in Locs, rhs_expr \in SsaRhs, c \in 1..MaxSsaNodes :
          WriteVar(loc, rhs_expr, c)

SpecSsa == Init /\ [][NextSsa]_vars

\* ---------------------------------------------- index-access actions
\* The indexed-access resolver on an array and an index value already
\* evaluated in ctx: a temporary for the element, bound to ctx, with an
\* IndexAccess edge to the array and an Index edge from the index value.
index_into_array(S, loc, arr, index, ctx) ==
    LET S1 == add_node(S, ContextVar("tmp", loc, None))
        access == Len(S1.nodes)
        S2 == add_edge(S1, access, ctx, "Variable")
        S3 == add_edge(S2, access, arr, "IndexAccess")
    IN  R(add_edge(S3, index, access, "Index"), Single(ctx, access))

\* The variables and literals a function body brings into its context: an
\* array, an index variable without a range, a variable of a user-defined
\* type, and an unsigned, a signed and a boolean literal.
Declared ==
    {ContextVar("arr", 1, None), ContextVar("i", 1, None), UserVar("s", 1),
     ConcreteVarOf(1, Concrete_Uint(5)), ConcreteVarOf(1, Concrete_Int(-1)),
     ConcreteVarOf(1, Concrete_Bool(TRUE))}

CommitAccess(S) ==
    /\ Len(S.nodes) <= MaxAccessNodes
    /\ nodes' = S.nodes
    /\ edges' = S.edges
    /\ builtins' = S.builtins
    /\ aborted' = S.aborted

\* A variable or literal is brought into the root context.
Declare(var) ==
    /\ ~aborted
    /\ \A v \in 1..Len(nodes) : nodes[v] # var
    /\ \A S1 \in {add_node(Cur, var)} :
          CommitAccess(add_edge(S1, Len(S1.nodes), 1, "Variable"))

\* arr[index] is evaluated in the root context.
IndexIntoArray(loc, arr, index) ==
    /\ ~aborted
    /\ arr \in CVars(nodes) /\ index \in CVars(nodes)
    /\ nodes[arr].name = "arr"
    /\ index # arr
    /\ CommitAccess(index_into_array(Cur, loc, arr, index, 1).s)

\* The bound analysis runs over the root context: it reads the graph, and
\* a panic ends the process.
MinSizeToPreventAccessRevert ==
    /\ ~aborted
    /\ aborted' = min_size_to_prevent_access_revert(Cur, 1).aborted
    /\ UNCHANGED <<nodes, edges, builtins>>

NextAccess ==
    \/ \E var \in Declared : Declare(var)
    \/ \E loc \in Locs, arr \in 1..MaxAccessNodes, index \in 1..MaxAccessNodes :
          IndexIntoArray(loc, arr, index)
    \/ MinSizeToPreventAccessRevert

SpecAccess == Init /\ [][NextAccess]_vars

\* -------------------------------------------- context-record actions
\* Context::new_subctx on p, the result added to the graph.
NewSubctx(p, is_fork) ==
    /\ ~aborted
    /\ IsCtx(nodes, p)
    /\ Cardinality(Ctxs(nodes)) < MaxCtxRec
    /\ Commit(add_node(Cur, Context_new_subctx(nodes, p, 1, is_fork)))

\* ContextNode::add_fork: a fork made for p is registered in p.forks.
AddFork(p, f) ==
    /\ ~aborted
    /\ IsCtx(nodes, p) /\ IsCtx(nodes, f)
    /\ nodes[f].parent_ctx = Some(p) /\ nodes[f].is_fork
    /\ \A i \in 1..Len(nodes[p].forks) : nodes[p].forks[i] # f
    /\ nodes' = add_fork(nodes, p, f)
    /\ UNCHANGED <<edges, builtins, aborted>>

\* ContextNode::add_child: a nested scope made for p is registered in
\* p.children.
AddChild(p, c) ==
    /\ ~aborted
    /\ IsCtx(nodes, p) /\ IsCtx(nodes, c)
    /\ nodes[c].parent_ctx = Some(p) /\ ~nodes[c].is_fork
    /\ \A i \in 1..Len(nodes[p].children) : nodes[p].children[i] # c
    /\ nodes' = add_child(nodes, p, c)
    /\ UNCHANGED <<edges, builtins, aborted>>

\* ContextNode::add_ctx_dep called on a context with a variable node.
AddCtxDep(c, dep) ==
    /\ ~aborted
    /\ IsCtx(nodes, c)
    /\ dep \in 1..Len(nodes) /\ nodes[dep].kind = "ContextVar"
    /\ nodes' = add_ctx_dep(nodes, c, dep)
    /\ UNCHANGED <<edges, builtins, aborted>>

\* ContextNode::new_tmp called on a context.
NewTmp(c) ==
    /\ ~aborted
    /\ IsCtx(nodes, c)
    /\ nodes[c].tmp_var_ctr < MaxTmp
    /\ nodes' = new_tmp(nodes, c).ns
    /\ UNCHANGED <<edges, builtins, aborted>>

\* A number literal is evaluated in the root context, once.
EvalOneLiteral ==
    /\ \A v \in CVars(nodes) : nodes[v].ty # "Concrete"
    /\ EvalLiteral(1)

\* Contexts are derived and registered, and take on dependencies and
\* temporaries.
NextCtx ==
    \/ \E p \in NodeIds, is_fork \in BOOLEAN : NewSubctx(p, is_fork)
    \/ \E p \in NodeIds, f \in NodeIds : AddFork(p, f)
    \/ \E p \in NodeIds, c \in NodeIds : AddChild(p, c)
    \/ \E c \in NodeIds, dep \in NodeIds : AddCtxDep(c, dep)
    \/ \E c \in NodeIds : NewTmp(c)

SpecCtx == Init /\ [][NextCtx]_vars

\* advance_var_in_ctx on a symbolic variable: a newer version of it, of
\* the same name, in a context.
AdvanceVarInCtx(v, c) ==
    /\ ~aborted
    /\ IsCtx(nodes, c)
    /\ v \in CVars(nodes) /\ nodes[v].ty = "BuiltIn"
    /\ CommitVars(advance_var_in_ctx(Cur, v, 2, c))

\* Contexts are derived, forks are registered, and contexts hand out
\* temporaries, in any order.
NextTmp ==
    \/ \E p \in NodeIds, is_fork \in BOOLEAN : NewSubctx(p, is_fork)
    \/ \E p \in NodeIds, f \in NodeIds : AddFork(p, f)
    \/ \E c \in NodeIds : NewTmp(c)

SpecTmp == Init /\ [][NextTmp]_vars

\* Contexts are derived, a literal is evaluated, and contexts take on
\* dependencies: symbolic and concrete candidates for add_ctx_dep.
NextDep ==
    \/ \E p \in NodeIds, is_fork \in BOOLEAN : NewSubctx(p, is_fork)
    \/ \E c \in NodeIds, dep \in NodeIds : AddCtxDep(c, dep)
    \/ EvalOneLiteral

SpecDep == Init /\ [][NextDep]_vars

\* Forks are derived, variables get newer versions of the same name, and
\* contexts take on dependencies.
NextIso ==
    \/ \E p \in NodeIds : NewSubctx(p, TRUE)
    \/ \E c \in NodeIds, dep \in NodeIds : AddCtxDep(c, dep)
    \/ \E v \in NodeIds, c \in NodeIds : AdvanceVarInCtx(v, c)

SpecIso == Init /\ [][NextIso]_vars

\* Contexts are derived and registered, killed and returned from.
NextLife ==
    \/ \E p \in NodeIds, is_fork \in BOOLEAN : NewSubctx(p, is_fork)
    \/ \E p \in NodeIds, f \in NodeIds : AddFork(p, f)
    \/ \E p \in NodeIds, c \in NodeIds : AddChild(p, c)
    \/ \E c \in NodeIds : Kill(c, 1)
    \/ \E c \in NodeIds : AddReturnNode(c, 1, 2)

SpecLife == Init /\ [][NextLife]_vars

\* ---------------------------------------------- graph-search actions
\* The edge kinds the searches are asked for or walk through.
EdgeKinds == {"Variable", "Prev"}

\* The nodes reached from a set of nodes along at most n edges, forward.
RECURSIVE forward(_, _, _)
forward(es, set, n) ==
    IF n = 0 THEN set
    ELSE forward(es, set \cup {es[i].dst : i \in {j \in 1..Len(es) : es[j].src \in set}},
                 n - 1)

\* AnalyzerLike::add_node: one more variable node.
AddNode ==
    /\ ~aborted
    /\ Len(nodes) < MaxGraphNodes
    /\ nodes' = Append(nodes, ContextVar("v", 1, None))
    /\ UNCHANGED <<edges, builtins, aborted>>

\* AnalyzerLike::add_edge between two nodes of the graph; the graph stays
\* acyclic, as the graphs the builder makes are.
AddEdge(src, dst, kind) ==
    /\ ~aborted
    /\ Len(edges) < MaxGraphEdges
    /\ src \in 1..Len(nodes) /\ dst \in 1..Len(nodes)
    /\ src \notin forward(edges, {dst}, Len(edges))
    /\ edges' = Append(edges, [src |-> src, dst |-> dst, kind |-> kind])
    /\ UNCHANGED <<nodes, builtins, aborted>>

NextGraph ==
    \/ AddNode
    \/ \E src \in 1..MaxGraphNodes, dst \in 1..MaxGraphNodes, kind \in EdgeKinds :
          AddEdge(src, dst, kind)

SpecGraph == Init /\ [][NextGraph]_vars

\* ------------------------------------------------- interpreter claims
\* The Variable edges into a context: the variables bound to it.
NVar(es, c) ==
    Cardinality({i \in 1..Len(es) : es[i].dst = c /\ es[i].kind = "Variable"})

\* The edges into a context, of any kind.
NIn(es, c) == Cardinality({i \in 1..Len(es) : es[i].dst = c})

\* The (context, value) pairs an ExprRet holds.
RECURSIVE Pairs(_)
Pairs(ret) ==
    CASE ret.tag = "Single" -> {[ctx |-> ret.ctx, idx |-> ret.idx]}
      [] ret.tag = "Multi" ->
            UNION {Pairs(ret.items[i]) : i \in 1..Len(ret.items)}
      [] ret.tag = "Fork" -> Pairs(ret.w1) \cup Pairs(ret.w2)
      [] OTHER -> {}

\* The live leaves of the fork tree of c: the contexts that are not ended
\* and have no live fork, reached from c through live forks.
RECURSIVE LiveLeaves(_, _)
LiveLeaves(ns, c) ==
    LET live == {f \in ForkSet(ns, c) : ~EndedIn(ns, f)}
    IN  IF live = {}
        THEN IF EndedIn(ns, c) THEN {} ELSE {c}
        ELSE UNION {LiveLeaves(ns, f) : f \in live}

DeclareY == VariableDefinition(1, "y", None)

\* C3 (as claimed): on a context that is ended (killed, or ret non-empty)
\* every statement and every expression is a no-op: the graph, the
\* contexts and the analyzer are left as they were.
C3_EndedIsNoOp ==
    ~aborted =>
    \A c \in Ctxs(nodes) :
        EndedIn(nodes, c) =>
            /\ \A stmt \in Stmts : parse_ctx_statement(Cur, stmt, c) = Cur
            /\ \A expr \in Exprs : parse_ctx_expr(Cur, expr, c).s = Cur

\* C4 (as claimed): a statement applied to a context that is not killed
\* reaches every live leaf of its fork tree exactly once, at any depth, and
\* does not abort: a declaration binds one variable to each live leaf, a
\* revert kills each live leaf.
C4_RecursiveBroadcast ==
    ~aborted =>
    \A c \in Ctxs(nodes) :
        ~is_killed(nodes, c) =>
            LET decl == parse_ctx_statement(Cur, DeclareY, c)
                rev == parse_ctx_statement(Cur, Revert(2), c)
            IN  /\ ~decl.aborted
                /\ \A x \in LiveLeaves(nodes, c) :
                      /\ NVar(decl.edges, x) = NVar(edges, x) + 1
                      /\ rev.nodes[x].killed = <<2>>

\* C5 (as claimed): parse_ctx_expr on a context that is not killed and has
\* live forks returns, for every live fork, a (fork, value) outcome of the
\* evaluation there; on a killed context it evaluates nothing and returns
\* Killed; with no live forks it evaluates in the context itself.
C5_ExprCombinesForks ==
    ~aborted =>
    \A c \in Ctxs(nodes) :
        LET r == parse_ctx_expr(Cur, NumberLiteral(1), c)
            live == {f \in ForkSet(nodes, c) : ~EndedIn(nodes, f)}
        IN  /\ nodes[c].killed # <<>> => (r.ret = CtxKilled /\ r.s = Cur)
            /\ (nodes[c].killed = <<>> /\ live = {}) =>
                  r.ret = Single(c, Len(nodes) + 1)
            /\ (nodes[c].killed = <<>> /\ live # {}) =>
                  \A f \in live : \E pr \in Pairs(r.ret) : pr.ctx = f

\* C6 (as claimed): once a context has a registered fork, no statement or
\* expression acts on the context itself (no variable bound to it, nothing
\* appended to its ret, no edge into it), and when all its forks are ended
\* a statement leaves the graph as it was.
C6_ForkedIsNeverTarget ==
    ~aborted =>
    \A c \in Ctxs(nodes) :
        Len(nodes[c].forks) >= 1 =>
            /\ \A stmt \in Stmts :
                  LET post == parse_ctx_statement(Cur, stmt, c)
                  IN  /\ post.nodes[c].ret = nodes[c].ret
                      /\ NIn(post.edges, c) = NIn(edges, c)
                      /\ AllForksEndedIn(nodes, c) =>
                            (post.nodes = nodes /\ post.edges = edges)
            /\ \A expr \in Exprs :
                  NIn(parse_ctx_expr(Cur, expr, c).s.edges, c) = NIn(edges, c)

\* C7: `if (c) { revert(); }` then a statement S, on a live context with no
\* forks: after the if, the context has two forks, exactly one killed, at
\* the revert's location, the other live, the context itself not killed;
\* S then acts on the live fork only: the killed fork is untouched, nothing
\* is bound or returned to the context, and a declaration binds exactly one
\* variable to the live fork. The two statements in one block do the same.
C7_IfRevertThenStatement ==
    ~aborted =>
    \A c \in Ctxs(nodes) :
        (~EndedIn(nodes, c) /\ nodes[c].forks = <<>>) =>
            \A S1 \in {parse_ctx_statement(Cur, IfRevert(2), c)},
               t \in {Len(nodes) + 1}, f \in {Len(nodes) + 2} :
                /\ ~S1.aborted
                /\ S1.nodes[c].forks = <<t, f>>
                /\ S1.nodes[t].killed = <<2>>
                /\ S1.nodes[f].killed = <<>> /\ S1.nodes[f].ret = <<>>
                /\ S1.nodes[c].killed = <<>>
                /\ \A stmt \in Stmts :
                      \A S2 \in {parse_ctx_statement(S1, stmt, c)} :
                          /\ S2.nodes[t] = S1.nodes[t]
                          /\ NIn(S2.edges, t) = NIn(S1.edges, t)
                          /\ S2.nodes[c].ret = S1.nodes[c].ret
                          /\ S2.nodes[c].forks = S1.nodes[c].forks
                          /\ NIn(S2.edges, c) = NIn(S1.edges, c)
                          /\ parse_ctx_statement(Cur, Block(<<IfRevert(2), stmt>>), c) = S2
                /\ \A S2 \in {parse_ctx_statement(S1, DeclareY, c)} :
                       /\ ~S2.aborted
                       /\ NVar(S2.edges, f) = NVar(S1.edges, f) + 1
                       /\ S2.nodes[Len(S2.nodes)].name = "y"
                       /\ S2.edges[Len(S2.edges)] =
                            [src |-> Len(S2.nodes), dst |-> f, kind |-> "Variable"]

\* C7 witness: the if-revert and the declaration were applied to a context:
\* two forks, the first killed at the revert's location, the second live
\* with the declared variable bound to it, the context not killed.
C7_Witness ==
    \E c \in Ctxs(nodes) :
        /\ Len(nodes[c].forks) = 2
        /\ nodes[c].killed = <<>>
        /\ nodes[nodes[c].forks[1]].killed = <<2>>
        /\ ~EndedIn(nodes, nodes[c].forks[2])
        /\ \E i \in 1..Len(edges) :
              /\ edges[i].dst = nodes[c].forks[2]
              /\ edges[i].kind = "Variable"
              /\ nodes[edges[i].src].name = "y"

\* C8: a Revert at loc applied to a context that is not killed leaves the
\* context killed at loc and every fork of it that was live killed at loc;
\* the forks that were already ended keep their killed and ret.
C8_RevertKillsContextAndLiveForks ==
    ~aborted =>
    \A c \in Ctxs(nodes), loc \in Locs :
        ~is_killed(nodes, c) =>
            \A post \in {parse_ctx_statement(Cur, Revert(loc), c)} :
                /\ ~post.aborted
                /\ post.nodes[c].killed = <<loc>>
                /\ \A f \in ForkSet(nodes, c) :
                      IF EndedIn(nodes, f)
                      THEN /\ post.nodes[f].killed = nodes[f].killed
                           /\ post.nodes[f].ret = nodes[f].ret
                      ELSE post.nodes[f].killed = <<loc>>

\* C8 witness: a context, not killed, with a live fork and a fork ended by
\* a return, which a Revert at 2 kills together with its live fork.
C8_Witness ==
    \E c \in Ctxs(nodes) :
        /\ nodes[c].killed = <<>>
        /\ Len(nodes[c].forks) >= 2
        /\ \E f \in ForkSet(nodes, c) : nodes[f].killed = <<>> /\ nodes[f].ret # <<>>
        /\ \E f \in ForkSet(nodes, c) :
              /\ ~EndedIn(nodes, f)
              /\ parse_ctx_statement(Cur, Revert(2), c).nodes[f].killed = <<2>>
        /\ parse_ctx_statement(Cur, Revert(2), c).nodes[c].killed = <<2>>

\* The ExprRet shapes a return expression may evaluate to, over the live
\* contexts and the variables of the graph.
Singles ==
    {Single(c, v) : c \in {x \in Ctxs(nodes) : ~EndedIn(nodes, x)},
                    v \in {x \in 1..Len(nodes) : nodes[x].kind = "ContextVar"}}

RetShapes ==
    {CtxKilled} \cup Singles
        \cup {Multi(<<a, b>>) : a \in Singles, b \in Singles}
        \cup {Fork(a, b) : a \in Singles, b \in Singles}

\* C9 (as claimed): the Return arm, for every (context, value) pair of the
\* evaluated return expression, whatever its shape, adds a Return edge
\* value -> context and appends (loc, value) to that context's ret, which
\* ends it, and does not abort; a Killed result records nothing.
C9_ReturnRecordsEveryPair ==
    ~aborted =>
    \A paths \in RetShapes :
        LET post == return_paths(Cur, 1, paths)
        IN  /\ ~post.aborted
            /\ paths = CtxKilled => post = Cur
            /\ \A pr \in Pairs(paths) :
                  /\ \E i \in (Len(edges) + 1)..Len(post.edges) :
                        post.edges[i] = [src |-> pr.idx, dst |-> pr.ctx, kind |-> "Return"]
                  /\ \E i \in (Len(nodes[pr.ctx].ret) + 1)..Len(post.nodes[pr.ctx].ret) :
                        post.nodes[pr.ctx].ret[i] = [loc |-> 1, var |-> pr.idx]
                  /\ EndedIn(post.nodes, pr.ctx)

\* ------------------------------------------------- assignment claims
\* The sequences of n Single results in c, over the variables of the graph.
SingleSeqs(c, n) == [1..n -> {Single(c, v) : v \in CVars(nodes)}]

\* n assignments one after the other, the i-th left element with the i-th
\* right element: the analyzer after them and their results, in order.
RECURSIVE AssignInOrder(_, _, _, _, _)
AssignInOrder(S, loc, ls, rs, acc) ==
    IF ls = <<>> THEN R(S, Multi(acc))
    ELSE LET a == assign(S, loc, Head(ls).idx, Head(rs).idx, Head(rs).ctx)
         IN  AssignInOrder(a.s, loc, Tail(ls), Tail(rs), Append(acc, a.ret))

\* C10: match_assign_sides on a Multi of n Singles against a Multi of n
\* Singles performs exactly the n assignments lhs[i] := rhs[i], in order,
\* and nothing else; when none of them fails it returns a Multi of exactly
\* n entries, the i-th the Single of the i-th new version, and the graph
\* has grown by exactly n nodes.
C10_MultiMultiZips ==
    ~aborted =>
    \A c \in Ctxs(nodes), n \in 1..2 :
        \A ls \in SingleSeqs(c, n), rs \in SingleSeqs(c, n) :
            \A r \in {match_assign_sides(Cur, 2, Multi(ls), Multi(rs), c)},
               seq \in {AssignInOrder(Cur, 2, ls, rs, <<>>)} :
                /\ r.s = seq.s
                /\ ~r.s.aborted =>
                      /\ r.ret = seq.ret
                      /\ Len(r.ret.items) = n
                      /\ Len(r.s.nodes) = Len(nodes) + n
                      /\ \A i \in 1..n :
                            /\ r.ret.items[i] = Single(c, Len(nodes) + i)
                            /\ r.s.nodes[Len(nodes) + i].name = nodes[ls[i].idx].name
                            /\ r.s.nodes[Len(nodes) + i].loc = <<2>>

\* C10 witness: two different variables, one of them without a range, that
\* a zip of length 2 assigns crosswise without failing: two new versions,
\* the first named as the first left element, the second as the second.
C10_Witness ==
    /\ ~aborted
    /\ \E c \in Ctxs(nodes) : \E a \in CVars(nodes), b \in CVars(nodes) :
          /\ nodes[a].name # nodes[b].name
          /\ nodes[b].range = <<>>
          /\ LET r == match_assign_sides(Cur, 2,
                          Multi(<<Single(c, a), Single(c, b)>>),
                          Multi(<<Single(c, b), Single(c, a)>>), c)
             IN  /\ ~r.s.aborted
                 /\ Len(r.ret.items) = 2
                 /\ r.s.nodes[Len(nodes) + 1].name = nodes[a].name
                 /\ r.s.nodes[Len(nodes) + 2].name = nodes[b].name
                 /\ r.s.nodes[Len(nodes) + 2].range = nodes[a].range

\* C11: match_assign_sides on Fork(l1, l2) against Fork(r1, r2), the four
\* worlds Single, performs exactly the four assignments l1 := r1, l1 := r2,
\* l2 := r1, l2 := r2, in that order, and nothing else; when none of them
\* fails it returns Fork(Fork(l1r1, l1r2), Fork(l2r1, l2r2)), the outer arm
\* by the left world and the inner arm by the right world, and the graph
\* has grown by exactly four nodes.
C11_ForkForkCrossProduct ==
    ~aborted =>
    \A c \in Ctxs(nodes) :
        \A ls \in SingleSeqs(c, 2), rs \in SingleSeqs(c, 2) :
            \A r \in {match_assign_sides(Cur, 2, Fork(ls[1], ls[2]),
                                         Fork(rs[1], rs[2]), c)},
               seq \in {AssignInOrder(Cur, 2, <<ls[1], ls[1], ls[2], ls[2]>>,
                                      <<rs[1], rs[2], rs[1], rs[2]>>, <<>>)} :
                /\ r.s = seq.s
                /\ ~r.s.aborted =>
                      /\ r.ret = Fork(Fork(seq.ret.items[1], seq.ret.items[2]),
                                     Fork(seq.ret.items[3], seq.ret.items[4]))
                      /\ Cardinality(Pairs(r.ret)) = 4
                      /\ Len(r.s.nodes) = Len(nodes) + 4
                      /\ r.s.nodes[r.ret.w1.w2.idx].name = nodes[ls[1].idx].name
                      /\ r.s.nodes[r.ret.w2.w1.idx].name = nodes[ls[2].idx].name
                      /\ r.s.nodes[r.ret.w1.w2.idx].range # <<>>
                      /\ r.s.nodes[r.ret.w2.w1.idx].range # <<>>

\* C11 witness: a variable without a range and two ranged variables with
\* different ranges, whose Fork against Fork assignment completes with four
\* new versions: two of the first left world, two of the second, the last
\* two carrying the ranges of the first and of the second right world.
C11_Witness ==
    /\ ~aborted
    /\ \E c \in Ctxs(nodes) :
          \E a \in CVars(nodes), a2 \in CVars(nodes), b \in CVars(nodes) :
              /\ nodes[a].range # <<>> /\ nodes[a2].range # <<>>
              /\ nodes[a].range # nodes[a2].range
              /\ nodes[b].range = <<>>
              /\ \A r \in {match_assign_sides(Cur, 2,
                                  Fork(Single(c, a), Single(c, b)),
                                  Fork(Single(c, a), Single(c, a2)), c)} :
                     /\ ~r.s.aborted
                     /\ Len(r.s.nodes) = Len(nodes) + 4
                     /\ r.s.nodes[Len(nodes) + 2].name = nodes[a].name
                     /\ r.s.nodes[Len(nodes) + 3].name = nodes[b].name
                     /\ r.s.nodes[Len(nodes) + 3].range = nodes[a].range
                     /\ r.s.nodes[Len(nodes) + 4].range = nodes[a2].range

\* C12: match_assign_sides on a Single against a Multi of n Singles, and on
\* a Multi of n Singles against a Single, performs exactly the n assignments
\* that pair the Single with the i-th element, in the Multi's order, and
\* nothing else; when none of them fails it returns a Multi of exactly n
\* entries, the i-th the Single of the i-th new node, a version of the left
\* variable of that pair.
C12_SingleMultiBroadcast ==
    ~aborted =>
    \A c \in Ctxs(nodes), n \in 1..2 :
        \A one \in SingleSeqs(c, 1), many \in SingleSeqs(c, n) :
            /\ \A r \in {match_assign_sides(Cur, 2, one[1], Multi(many), c)},
                  seq \in {AssignInOrder(Cur, 2, [i \in 1..n |-> one[1]],
                                         many, <<>>)} :
                   /\ r.s = seq.s
                   /\ ~r.s.aborted =>
                         /\ r.ret = seq.ret
                         /\ Len(r.ret.items) = n
                         /\ \A i \in 1..n :
                               /\ r.ret.items[i] = Single(c, Len(nodes) + i)
                               /\ r.s.nodes[Len(nodes) + i].name =
                                     nodes[one[1].idx].name
            /\ \A r \in {match_assign_sides(Cur, 2, Multi(many), one[1], c)},
                  seq \in {AssignInOrder(Cur, 2, many,
                                         [i \in 1..n |-> one[1]], <<>>)} :
                   /\ r.s = seq.s
                   /\ ~r.s.aborted =>
                         /\ r.ret = seq.ret
                         /\ Len(r.ret.items) = n
                         /\ \A i \in 1..n :
                               /\ r.ret.items[i] = Single(c, Len(nodes) + i)
                               /\ r.s.nodes[Len(nodes) + i].name =
                                     nodes[many[i].idx].name

\* C12 witness: a ranged variable a and a variable b without a range; b
\* against the list (a, a) gives two new versions of b, and the list (a, b)
\* against a gives a new version of a and then one of b, each with a's range.
C12_Witness ==
    /\ ~aborted
    /\ \E c \in Ctxs(nodes) : \E a \in CVars(nodes), b \in CVars(nodes) :
          /\ nodes[a].range # <<>> /\ nodes[b].range = <<>>
          /\ nodes[a].name # nodes[b].name
          /\ \A r \in {match_assign_sides(Cur, 2, Single(c, b),
                              Multi(<<Single(c, a), Single(c, a)>>), c)} :
                 /\ ~r.s.aborted
                 /\ Len(r.ret.items) = 2
                 /\ r.s.nodes[Len(nodes) + 1].name = nodes[b].name
                 /\ r.s.nodes[Len(nodes) + 2].name = nodes[b].name
          /\ \A r \in {match_assign_sides(Cur, 2,
                              Multi(<<Single(c, a), Single(c, b)>>),
                              Single(c, a), c)} :
                 /\ ~r.s.aborted
                 /\ Len(r.ret.items) = 2
                 /\ r.s.nodes[Len(nodes) + 1].name = nodes[a].name
                 /\ r.s.nodes[Len(nodes) + 2].name = nodes[b].name
                 /\ r.s.nodes[Len(nodes) + 2].range = nodes[a].range

\* The sequence s with every element repeated m times in place.
Stutter(s, m) == [k \in 1..(Len(s) * m) |-> s[((k - 1) \div m) + 1]]

\* The sequence s repeated n times end to end.
Cycle(s, n) == [k \in 1..(Len(s) * n) |-> s[((k - 1) % Len(s)) + 1]]

\* C13: match_assign_sides on a Multi of m Singles against a Multi of n
\* Singles, m # n, does not take a failure path of its own: it performs
\* exactly the m*n assignments lhs[i] := rhs[j], for each j in order and
\* within it each i in order, and nothing else; when none of them fails it
\* returns a Multi of exactly n entries, the j-th a Multi of the m results
\* of the left side against rhs[j], and the graph has grown by m*n nodes.
C13_UnequalMultiBroadcast ==
    ~aborted =>
    \A c \in Ctxs(nodes), m \in 0..2, n \in 0..2 :
        m # n =>
        \A ls \in SingleSeqs(c, m), rs \in SingleSeqs(c, n) :
            \A r \in {match_assign_sides(Cur, 2, Multi(ls), Multi(rs), c)},
               seq \in {AssignInOrder(Cur, 2, Cycle(ls, n), Stutter(rs, m),
                                      <<>>)} :
                /\ r.s = seq.s
                /\ r.ret.tag = "Multi" \/ r.s.aborted
                /\ ~r.s.aborted =>
                      /\ Len(r.ret.items) = n
                      /\ Len(r.s.nodes) = Len(nodes) + m * n
                      /\ \A j \in 1..n :
                            r.ret.items[j] =
                              Multi(SubSeq(seq.ret.items, (j - 1) * m + 1, j * m))

\* C13 witness: a ranged variable a and a variable b without a range; the
\* list (a, b) against the list (a) gives one entry of two results, and the
\* list (b) against the list (a, a) gives two entries of one result each.
C13_Witness ==
    /\ ~aborted
    /\ \E c \in Ctxs(nodes) : \E a \in CVars(nodes), b \in CVars(nodes) :
          /\ nodes[a].range # <<>> /\ nodes[b].range = <<>>
          /\ \A r \in {match_assign_sides(Cur, 2,
                              Multi(<<Single(c, a), Single(c, b)>>),
                              Multi(<<Single(c, a)>>), c)} :
                 /\ ~r.s.aborted
                 /\ Len(r.ret.items) = 1
                 /\ Len(r.ret.items[1].items) = 2
                 /\ Len(r.s.nodes) = Len(nodes) + 2
          /\ \A r \in {match_assign_sides(Cur, 2,
                              Multi(<<Single(c, b)>>),
                              Multi(<<Single(c, a), Single(c, a)>>), c)} :
                 /\ ~r.s.aborted
                 /\ Len(r.ret.items) = 2
                 /\ Len(r.ret.items[2].items) = 1
                 /\ r.s.nodes[Len(nodes) + 2].name = nodes[b].name

\* The sides without a fork, over two variables in c.
PlainSides(c, a, b) ==
    {Single(c, a), Multi(<<Single(c, a)>>), Multi(<<Single(c, a), Single(c, b)>>)}

\* C14 (as claimed): match_assign_sides with a Fork on exactly one side and
\* a Single or Multi on the other returns, in either orientation, a Fork
\* whose two arms are the results of assigning the other side against the
\* first and against the second world: with the Fork on the right, and
\* likewise with the Fork on the left.
C14_ForkOneSideDistributes ==
    ~aborted =>
    \A c \in Ctxs(nodes) :
        \A a \in CVars(nodes), b \in CVars(nodes), w \in SingleSeqs(c, 2) :
            \A side \in PlainSides(c, a, b) :
                /\ \A r \in {match_assign_sides(Cur, 2, side, Fork(w[1], w[2]), c)},
                      m1 \in {match_assign_sides(Cur, 2, side, w[1], c)} :
                      \A m2 \in {match_assign_sides(m1.s, 2, side, w[2], c)} :
                          /\ r.s = m2.s
                          /\ ~m2.s.aborted => r.ret = Fork(m1.ret, m2.ret)
                /\ \A r \in {match_assign_sides(Cur, 2, Fork(w[1], w[2]), side, c)},
                      m1 \in {match_assign_sides(Cur, 2, w[1], side, c)} :
                      \A m2 \in {match_assign_sides(m1.s, 2, w[2], side, c)} :
                          /\ r.s = m2.s
                          /\ ~m2.s.aborted => r.ret = Fork(m1.ret, m2.ret)

\* C15 (as claimed): match_assign_sides is total over the shapes: for every
\* pair of shapes (Killed, Single, Multi, Fork) on the two sides, over
\* variables that carry a range, it returns and does not abort.
C15_TotalOverShapes ==
    ~aborted =>
    \A c \in Ctxs(nodes) :
        \A a \in {v \in CVars(nodes) : nodes[v].range # <<>>},
           b \in {v \in CVars(nodes) : nodes[v].range # <<>>} :
            \A lhs_paths \in RhsRets(c, a, b), rhs_paths \in RhsRets(c, b, a) :
                ~match_assign_sides(Cur, 2, lhs_paths, rhs_paths, c).s.aborted

\* ------------------------------------------------------ assign claims
\* C16: assign(lhs, rhs, ctx) where rhs carries a range [lo, hi] does not
\* fail and returns the new version of lhs with min = lo and max = hi, the
\* bounds of rhs as they are (concrete when those of rhs are), neither a
\* reference to the rhs node, whether or not lhs carried a range.
C16_AssignCopiesRhsRange ==
    ~aborted =>
    \A c \in Ctxs(nodes), loc \in Locs :
        \A lhs \in CVars(nodes), rhs \in CVars(nodes) :
            nodes[rhs].range # <<>> =>
                \A r \in {assign(Cur, loc, lhs, rhs, c)} :
                    /\ ~r.s.aborted
                    /\ r.ret = Single(c, Len(nodes) + 1)
                    /\ r.s.nodes[r.ret.idx].range = nodes[rhs].range
                    /\ \A bound \in {r.s.nodes[r.ret.idx].range[1].min,
                                     r.s.nodes[r.ret.idx].range[1].max} :
                          /\ bound.tag = "Dynamic" => bound.idx # rhs
                          /\ bound.tag = "Concrete" =>
                                bound \in {nodes[rhs].range[1].min,
                                           nodes[rhs].range[1].max}

\* C16 witness: a variable a without a range and a variable b with the
\* concrete range [0, 10]; a = b gives a new version of a with [0, 10].
C16_Witness ==
    /\ ~aborted
    /\ \E c \in Ctxs(nodes) : \E a \in CVars(nodes), b \in CVars(nodes) :
          /\ nodes[a].range = <<>>
          /\ nodes[b].range = <<Range(Concrete(0), Concrete(10))>>
          /\ \A r \in {assign(Cur, 2, a, b, c)} :
                 /\ ~r.s.aborted
                 /\ r.s.nodes[r.ret.idx].name = nodes[a].name
                 /\ r.s.nodes[r.ret.idx].range =
                       <<Range(Concrete(0), Concrete(10))>>

\* C17: assign(lhs, rhs, ctx) at location loc where rhs has no range and lhs
\* has one does not fail and gives the new version of lhs the bounds
\* min = Dynamic(rhs, Min, loc) and max = Dynamic(rhs, Max, loc) whatever
\* bounds lhs had before: they are never taken over from lhs, so they differ
\* from those of lhs unless lhs already referred to rhs at loc.
C17_AssignLazyBounds ==
    ~aborted =>
    \A c \in Ctxs(nodes), loc \in Locs :
        \A lhs \in CVars(nodes), rhs \in CVars(nodes) :
            (nodes[rhs].range = <<>> /\ nodes[lhs].range # <<>>) =>
                \A r \in {assign(Cur, loc, lhs, rhs, c)} :
                    /\ ~r.s.aborted
                    /\ r.ret = Single(c, Len(nodes) + 1)
                    /\ r.s.nodes[r.ret.idx].range =
                          <<[min |-> [tag |-> "Dynamic", idx |-> rhs,
                                      side |-> "Min", loc |-> loc],
                             max |-> [tag |-> "Dynamic", idx |-> rhs,
                                      side |-> "Max", loc |-> loc]]>>
                    /\ \/ r.s.nodes[r.ret.idx].range # nodes[lhs].range
                       \/ nodes[lhs].range =
                            <<Range(Dynamic(rhs, "Min", loc),
                                    Dynamic(rhs, "Max", loc))>>

\* C17 witness: x with the range [0, 10] is assigned a variable without a
\* range, and the new version of x refers to that variable's bounds.
C17_Witness ==
    /\ ~aborted
    /\ \E c \in Ctxs(nodes) : \E a \in CVars(nodes), b \in CVars(nodes) :
          /\ nodes[a].range = <<Range(Concrete(0), Concrete(10))>>
          /\ nodes[b].range = <<>>
          /\ \A r \in {assign(Cur, 2, a, b, c)} :
                 /\ ~r.s.aborted
                 /\ r.s.nodes[r.ret.idx].range[1].min.tag = "Dynamic"
                 /\ r.s.nodes[r.ret.idx].range[1].min.idx = b
                 /\ r.s.nodes[r.ret.idx].range[1].max.side = "Max"

\* C18: every assign that does not fail adds exactly one node, a ContextVar
\* that is the new version of the left side (its name and type), returns it,
\* and leaves every node that existed before, the previous version of the
\* left side and the right side among them, as it was: the new bounds are on
\* the new node only.
C18_AssignAddsOneVersion ==
    ~aborted =>
    \A c \in Ctxs(nodes), loc \in Locs :
        \A lhs \in CVars(nodes), rhs \in CVars(nodes) :
            \A r \in {assign(Cur, loc, lhs, rhs, c)} :
                ~r.s.aborted =>
                    /\ Len(r.s.nodes) = Len(nodes) + 1
                    /\ r.ret = Single(c, Len(nodes) + 1)
                    /\ r.s.nodes[Len(nodes) + 1].kind = "ContextVar"
                    /\ r.s.nodes[Len(nodes) + 1].name = nodes[lhs].name
                    /\ r.s.nodes[Len(nodes) + 1].ty = nodes[lhs].ty
                    /\ \A i \in 1..Len(nodes) : r.s.nodes[i] = nodes[i]

\* C18 witness: an assignment that changes the bounds (the new version's
\* range differs from the one the left side had) with a third variable
\* present, and all three old nodes are as before.
C18_Witness ==
    /\ ~aborted
    /\ \E c \in Ctxs(nodes) : \E a \in CVars(nodes), b \in CVars(nodes) :
          /\ a # b
          /\ CVars(nodes) \ {a, b} # {}
          /\ \A r \in {assign(Cur, 2, a, b, c)} :
                 /\ ~r.s.aborted
                 /\ r.s.nodes[r.ret.idx].range # nodes[a].range
                 /\ r.s.nodes[a] = nodes[a]
                 /\ r.s.nodes[b] = nodes[b]
                 /\ \A o \in CVars(nodes) : r.s.nodes[o] = nodes[o]

\* C19 (as claimed): an operation that fails because neither side carries a
\* range leaves no partial graph. A plain assignment lhs = rhs between two
\* variables without a range, and a declaration with initializer of a
\* variable without a range from a value without a range, both fail and
\* leave the nodes and the edges exactly as they were before.
C19_FailureLeavesNoPartialGraph ==
    ~aborted =>
    \A c \in Ctxs(nodes), loc \in Locs :
        \A rhs \in {v \in CVars(nodes) : nodes[v].range = <<>>} :
            /\ \A lhs \in {v \in CVars(nodes) : nodes[v].range = <<>>} :
                  \A r \in {assign(Cur, loc, lhs, rhs, c)} :
                      /\ r.s.aborted
                      /\ r.s.nodes = nodes
                      /\ r.s.edges = edges
            /\ \A post \in {match_var_def(Cur, loc, ContextVar("y", loc, None),
                                          Single(c, rhs))} :
                  /\ post.aborted
                  /\ post.nodes = nodes
                  /\ post.edges = edges

\* The contexts that own variable v in the current graph: those v is a
\* member of, or else those owning the version v was advanced from.
RECURSIVE OwnersOf(_)
OwnersOf(v) ==
    LET member == {edges[i].dst : i \in {j \in 1..Len(edges) :
                       edges[j].src = v /\ edges[j].kind = "Variable"}}
        prev == {edges[i].dst : i \in {j \in 1..Len(edges) :
                       edges[j].src = v /\ edges[j].kind = "Prev"}}
    IN  IF member # {} THEN member
        ELSE UNION {OwnersOf(p) : p \in prev}

\* C20: advance_var_in_ctx(v, loc, ctx) adds exactly one node, a copy of v
\* with loc replaced, and exactly one edge, from the new node: a Variable
\* edge to ctx if v has an owning context other than ctx, otherwise a Prev
\* edge to v. Every earlier node (v included) and edge is left as it was.
C20_AdvanceOneNodeOneEdge ==
    ~aborted =>
    \A c \in Ctxs(nodes), loc \in Locs :
        \A v \in CVars(nodes) :
            \A post \in {advance_var_in_ctx(Cur, v, loc, c)} :
                /\ ~post.aborted
                /\ Len(post.nodes) = Len(nodes) + 1
                /\ \A i \in 1..Len(nodes) : post.nodes[i] = nodes[i]
                /\ post.nodes[Len(nodes) + 1] = [nodes[v] EXCEPT !.loc = <<loc>>]
                /\ Len(post.edges) = Len(edges) + 1
                /\ \A i \in 1..Len(edges) : post.edges[i] = edges[i]
                /\ post.edges[Len(edges) + 1] =
                      IF OwnersOf(v) # {} /\ c \notin OwnersOf(v)
                      THEN [src |-> Len(nodes) + 1, dst |-> c, kind |-> "Variable"]
                      ELSE [src |-> Len(nodes) + 1, dst |-> v, kind |-> "Prev"]

\* C20 witness: a variable owned by one context is advanced into a fork
\* (membership edge to the fork) and into its own context (Prev edge), at a
\* location other than its own.
C20_Witness ==
    /\ ~aborted
    /\ \E c1 \in Ctxs(nodes), c2 \in Ctxs(nodes) : \E v \in CVars(nodes) :
          /\ OwnersOf(v) = {c1}
          /\ c2 # c1
          /\ nodes[v].loc # <<2>>
          /\ \A p1 \in {advance_var_in_ctx(Cur, v, 2, c1)},
                p2 \in {advance_var_in_ctx(Cur, v, 2, c2)} :
                 /\ p1.edges[Len(edges) + 1].kind = "Prev"
                 /\ p1.edges[Len(edges) + 1].dst = v
                 /\ p2.edges[Len(edges) + 1].kind = "Variable"
                 /\ p2.edges[Len(edges) + 1].dst = c2
                 /\ p2.nodes[Len(nodes) + 1].loc = <<2>>

\* ------------------------------------------- variable-version claims
\* The sibling forks of the root context.
RootForks == {nodes[1].forks[i] : i \in 1..Len(nodes[1].forks)}

\* C21: for two sibling forks A and B of a context that held x before the
\* fork, once both have written x their latest versions of x are distinct
\* nodes named x, A's owned by A and B's owned by B; and every further
\* write `x = rhs` in A makes the node it adds A's latest version, and
\* leaves B's latest version what it was, never the node A added.
C21_ForksKeepOwnVersions ==
    ~aborted =>
    \A A \in RootForks, B \in RootForks :
        A # B =>
            /\ \A a \in {latest_var_by_name(Cur, A, "x")},
                  b \in {latest_var_by_name(Cur, B, "x")} :
                  (a # <<>> /\ b # <<>>) =>
                      /\ a # b
                      /\ nodes[a[1]].name = "x" /\ nodes[b[1]].name = "x"
                      /\ OwnersOf(a[1]) = {A}
                      /\ OwnersOf(b[1]) = {B}
            /\ \A loc \in Locs, rhs_expr \in SsaRhs :
                  \A post \in {parse_ctx_statement(Cur, WriteX(loc, rhs_expr), A)} :
                      /\ ~post.aborted
                      /\ post.nodes[Len(post.nodes)].name = "x"
                      /\ Len(post.nodes) > Len(nodes)
                      /\ latest_var_by_name(post, A, "x") = <<Len(post.nodes)>>
                      /\ latest_var_by_name(post, B, "x") =
                            latest_var_by_name(Cur, B, "x")

\* C21 witness: two sibling forks have both written x, one of them twice
\* (its latest version has a Prev edge), and each looks up a version of
\* its own.
C21_Witness ==
    /\ ~aborted
    /\ \E A \in RootForks, B \in RootForks :
          /\ A # B
          /\ \E a \in CVars(nodes), b \in CVars(nodes) :
                /\ a # b
                /\ latest_var_by_name(Cur, A, "x") = <<a>>
                /\ latest_var_by_name(Cur, B, "x") = <<b>>
                /\ \E i \in 1..Len(edges) :
                      edges[i].src = a /\ edges[i].kind = "Prev"
                /\ OwnersOf(a) = {A}
                /\ OwnersOf(b) = {B}

\* -------------------------------------------------- bound-analysis claims
\* The recorded (array, access) pairs: the IndexAccess edges of the graph.
AccessPairs ==
    {<<edges[i].dst, edges[i].src>> :
        i \in {j \in 1..Len(edges) : edges[j].kind = "IndexAccess"}}

\* The pairs in the order of the grouping: by array, then by access.
PairSeq ==
    CHOOSE seq \in [1..Cardinality(AccessPairs) -> AccessPairs] :
        \A i \in DOMAIN seq, j \in DOMAIN seq :
            i < j => \/ seq[i][1] < seq[j][1]
                     \/ seq[i][1] = seq[j][1] /\ seq[i][2] < seq[j][2]

\* The index value of an access: the source of its Index edge.
IndexOf(access) ==
    CHOOSE v \in CVars(nodes) :
        \E i \in 1..Len(edges) :
            edges[i].src = v /\ edges[i].dst = access /\ edges[i].kind = "Index"

\* The index of the access is a numeric literal (signed or unsigned) or a
\* builtin-typed variable.
NumericOrBuiltIn(access) ==
    \/ nodes[IndexOf(access)].ty = "BuiltIn"
    \/ /\ nodes[IndexOf(access)].ty = "Concrete"
       /\ nodes[IndexOf(access)].conc[1].kind \in {"Uint", "Int"}

\* The target the analysis is to name for an access.
TargetOf(access) ==
    IF nodes[IndexOf(access)].ty = "Concrete"
    THEN [tag |-> "Concrete", conc |-> nodes[IndexOf(access)].conc[1]]
    ELSE IF nodes[IndexOf(access)].range # <<>>
    THEN [tag |-> "Dynamic", idx |-> IndexOf(access)]
    ELSE [tag |-> "Dynamic", idx |-> access]

\* C22 (as claimed): when every recorded index is a numeric literal, signed
\* or unsigned, or a builtin-typed variable, the analysis returns one
\* MinSize record with relation Gt per (array, access) pair, naming the
\* array, with target Concrete(literal) for a literal, Dynamic(index
\* variable) for a ranged variable, Dynamic(access) for an unranged one.
C22_MinSizeRecords ==
    ~aborted =>
    ((\A p \in AccessPairs : NumericOrBuiltIn(p[2])) =>
        \A res \in {min_size_to_prevent_access_revert(Cur, 1)} :
            /\ ~res.aborted
            /\ Len(res.analyses) = Cardinality(AccessPairs)
            /\ \A i \in 1..Len(res.analyses) :
                  /\ res.analyses[i].analysis_ty = "MinSize"
                  /\ res.analyses[i].rel = "Gt"
                  /\ res.analyses[i].arr_def = PairSeq[i][1]
                  /\ res.analyses[i].target = TargetOf(PairSeq[i][2]))

\* The index of the access is outside the supported subset: a concrete
\* value that is not numeric, or a variable that is neither concrete nor
\* builtin-typed.
UnsupportedIndex(access) ==
    \/ /\ nodes[IndexOf(access)].ty = "Concrete"
       /\ nodes[IndexOf(access)].conc[1].kind \notin {"Uint", "Int"}
    \/ nodes[IndexOf(access)].ty \notin {"Concrete", "BuiltIn"}

\* C23 (as claimed): when a recorded access has an index outside the
\* supported subset, the analysis does not panic: it returns, and the
\* accesses with an unsigned literal or a builtin-typed variable as index
\* still have their records.
C23_UnsupportedIndexIsAnError ==
    ~aborted =>
    ((\E p \in AccessPairs : UnsupportedIndex(p[2])) =>
        \A res \in {min_size_to_prevent_access_revert(Cur, 1)} :
            /\ ~res.aborted
            /\ \A p \in AccessPairs :
                  (~UnsupportedIndex(p[2])
                        /\ nodes[IndexOf(p[2])].conc # <<Concrete_Int(-1)>>) =>
                      \E i \in 1..Len(res.analyses) :
                          /\ res.analyses[i].arr_def = p[1]
                          /\ res.analyses[i].rel = "Gt"
                          /\ res.analyses[i].target.tag \in {"Concrete", "Dynamic"})

\* ---------------------------------------------------- graph-search claims
\* The backward closure of a node: the node and every node that reaches it
\* along edges of any kind.
BackClosure(start) ==
    {t \in 1..Len(nodes) : start \in forward(edges, {t}, Len(edges))}

\* The sources of the edges of kind K into node t.
SourcesInto(t, K) ==
    {edges[i].src : i \in {j \in 1..Len(edges) :
                              edges[j].dst = t /\ edges[j].kind = K}}

\* C24: on an acyclic graph search_children(start, K) is exactly the set of
\* nodes with an edge of kind K into start or into a node that reaches
\* start along edges of any kind; start itself is in it only with such an
\* edge (which an acyclic graph never gives it).
C24_SearchChildrenClosure ==
    \A start \in 1..Len(nodes), K \in EdgeKinds :
        /\ search_children(edges, start, K) =
              UNION {SourcesInto(t, K) : t \in BackClosure(start)}
        /\ start \notin search_children(edges, start, K)

\* C24 witness: a <-K- b <-other- c <-K- d, and the search from a for K
\* gives {b, d}.
C24_Witness ==
    \E a \in 1..Len(nodes), b \in 1..Len(nodes),
       c \in 1..Len(nodes), d \in 1..Len(nodes) :
        /\ Cardinality({a, b, c, d}) = 4
        /\ b \in SourcesInto(a, "Variable")
        /\ c \in SourcesInto(b, "Prev")
        /\ d \in SourcesInto(c, "Variable")
        /\ search_children(edges, a, "Variable") = {b, d}

\* C25: on an acyclic graph nodes_with_children(start, K) is None exactly
\* when no node of the backward closure of start has an incoming edge of
\* kind K; otherwise it is a map whose keys are exactly the nodes of the
\* closure with a direct incoming K edge, each mapped to exactly the
\* sources of its direct incoming K edges.
C25_NodesWithChildrenGroups ==
    \A start \in 1..Len(nodes), K \in EdgeKinds :
        \A r \in {nodes_with_children(edges, start, K)} :
            /\ r = <<>> <=>
                  \A t \in BackClosure(start) : SourcesInto(t, K) = {}
            /\ r # <<>> =>
                  /\ DOMAIN r[1] =
                        {t \in BackClosure(start) : SourcesInto(t, K) # {}}
                  /\ \A t \in DOMAIN r[1] : r[1][t] = SourcesInto(t, K)

\* C25 witness: a <-K- b <-other- c <-K- d gives the map {a: {b}, c: {d}},
\* and a search with no K edge in the closure gives None.
C25_Witness ==
    \E a \in 1..Len(nodes), b \in 1..Len(nodes),
       c \in 1..Len(nodes), d \in 1..Len(nodes) :
        /\ Cardinality({a, b, c, d}) = 4
        /\ nodes_with_children(edges, a, "Variable") =
              <<[k \in {a, c} |-> IF k = a THEN {b} ELSE {d}]>>
        /\ nodes_with_children(edges, d, "Variable") = <<>>

\* The targets of the edges of kind K out of node n.
TargetsFrom(n, K) ==
    {edges[i].dst : i \in {j \in 1..Len(edges) :
                              edges[j].src = n /\ edges[j].kind = K}}

\* C26: on an acyclic graph search_for_ancestor(start, K) is Some(t)
\* exactly when some node reachable from start along outgoing edges (start
\* included) has an outgoing edge of kind K, t being the target of such an
\* edge, and of one of start's own K edges when start has any; it is None
\* otherwise.
C26_SearchForAncestor ==
    \A start \in 1..Len(nodes), K \in EdgeKinds :
        \A r \in {search_for_ancestor(edges, start, K)} :
            /\ r # <<>> <=>
                  \E n \in forward(edges, {start}, Len(edges)) :
                      TargetsFrom(n, K) # {}
            /\ r # <<>> =>
                  \E n \in forward(edges, {start}, Len(edges)) :
                      r[1] \in TargetsFrom(n, K)
            /\ TargetsFrom(start, K) # {} => r[1] \in TargetsFrom(start, K)

\* C26 witness: a search that has to descend (start has no K edge of its
\* own, a node below it has), and a search for the kind of which start has
\* two edges of its own, answered with the target of one of them.
C26_Witness ==
    \E a \in 1..Len(nodes), m \in 1..Len(nodes), t \in 1..Len(nodes) :
        /\ TargetsFrom(a, "Variable") = {}
        /\ m \in TargetsFrom(a, "Prev")
        /\ t \in TargetsFrom(m, "Variable")
        /\ search_for_ancestor(edges, a, "Variable") = <<t>>
        /\ \E u \in 1..Len(nodes) :
              /\ u \notin {t, m}
              /\ TargetsFrom(a, "Prev") = {m, u}
              /\ search_for_ancestor(edges, a, "Prev") \in {<<m>>, <<u>>}

\* -------------------------------------------------- context-record claims
\* C27: the context new_subctx(parent, ...) builds starts with the
\* parent's ctx_deps and tmp_var_ctr as they are at that time, the
\* parent's owning function, parent_ctx = parent, killed unset, and empty
\* forks, children and ret.
C27_SubctxInherits ==
    \A parent \in Ctxs(nodes), loc \in Locs, is_fork \in BOOLEAN :
        \A sub \in {Context_new_subctx(nodes, parent, loc, is_fork)} :
            /\ sub.ctx_deps = nodes[parent].ctx_deps
            /\ sub.tmp_var_ctr = nodes[parent].tmp_var_ctr
            /\ sub.parent_fn = nodes[parent].parent_fn
            /\ sub.parent_ctx = <<parent>>
            /\ sub.killed = <<>>
            /\ sub.forks = <<>> /\ sub.children = <<>> /\ sub.ret = <<>>

\* C27 witness: a parent that has a dependency, has handed out a
\* temporary and has a fork and a child of its own; the subcontext built
\* from it has the dependency and the counter, and no fork or child.
C27_Witness ==
    \E parent \in Ctxs(nodes) :
        /\ nodes[parent].ctx_deps # {}
        /\ nodes[parent].tmp_var_ctr > 0
        /\ nodes[parent].forks # <<>>
        /\ nodes[parent].children # <<>>
        /\ Context_new_subctx(nodes, parent, 2, TRUE).ctx_deps # {}
        /\ Context_new_subctx(nodes, parent, 2, TRUE).tmp_var_ctr > 0
        /\ Context_new_subctx(nodes, parent, 2, TRUE).forks = <<>>

\* C28 (as claimed): in every state reached by new_subctx, add_fork and
\* add_child in any order, no two distinct contexts have the same path.
C28_PathsUnique ==
    \A c1 \in Ctxs(nodes), c2 \in Ctxs(nodes) :
        c1 # c2 => nodes[c1].path # nodes[c2].path

\* C29: add_ctx_dep(var) on a context binds name(var) to var in that
\* context's ctx_deps (the one binding of that name) exactly when var is
\* symbolic; for a concrete var ctx_deps is left as it was. Nothing else
\* of the graph changes.
C29_CtxDepOnlyIfSymbolic ==
    \A c \in Ctxs(nodes), dep \in CVars(nodes) :
        \A post \in {add_ctx_dep(nodes, c, dep)} :
            /\ nodes[dep].ty # "Concrete" =>
                  /\ [name |-> nodes[dep].name, var |-> dep] \in post[c].ctx_deps
                  /\ \A d \in post[c].ctx_deps :
                        d.name = nodes[dep].name => d.var = dep
                  /\ \A d \in nodes[c].ctx_deps :
                        d.name # nodes[dep].name => d \in post[c].ctx_deps
                  /\ \A d \in post[c].ctx_deps :
                        d.name # nodes[dep].name => d \in nodes[c].ctx_deps
            /\ nodes[dep].ty = "Concrete" =>
                  post[c].ctx_deps = nodes[c].ctx_deps
            /\ post = [nodes EXCEPT ![c].ctx_deps = post[c].ctx_deps]

\* C29 witness: a context that has recorded the symbolic x, and a literal's
\* variable in the graph that add_ctx_dep does not record.
C29_Witness ==
    \E c \in Ctxs(nodes), x \in CVars(nodes), lit \in CVars(nodes) :
        /\ nodes[x].ty = "BuiltIn" /\ nodes[lit].ty = "Concrete"
        /\ nodes[c].ctx_deps = {[name |-> nodes[x].name, var |-> x]}
        /\ add_ctx_dep(nodes, c, lit) = nodes
        /\ \E c2 \in Ctxs(nodes) :
              /\ nodes[c2].ctx_deps = {}
              /\ add_ctx_dep(nodes, c2, x) # nodes

\* Sequence s is a prefix of sequence t.
IsPrefix(s, t) == Len(s) <= Len(t) /\ \A i \in 1..Len(s) : s[i] = t[i]

UnsupportedStmts ==
    {Stmt(k, l, "", None, <<>>, <<>>) : k \in UnsupportedKinds, l \in Locs}

\* C31: applying a While, For, DoWhile, Assembly, Try or Emit statement to
\* any context (live, forked, killed or returned) leaves the whole graph
\* as it was: the same nodes with the same fields and the same edges, and
\* the analysis does not abort.
C31_UnsupportedStmtsAreNoOps ==
    ~aborted =>
        \A c \in Ctxs(nodes), stmt \in UnsupportedStmts :
            parse_ctx_statement(Cur, stmt, c) = Cur

\* C31 witness: a context with a live fork and a declared variable, on
\* which a revert would change the graph and an emit does not.
C31_Witness ==
    /\ ~aborted
    /\ Len(edges) > 1
    /\ \E c \in Ctxs(nodes) :
          /\ live_forks(nodes, c) # <<>>
          /\ parse_ctx_statement(Cur, Revert(1), c) # Cur
          /\ parse_ctx_statement(Cur, Emit(1), c) = Cur

C33_RevertEndsForkSubtree ==
    ~aborted =>
        \A c \in Ctxs(nodes), loc \in Locs :
            ~is_killed(nodes, c) =>
                \A post \in {parse_ctx_statement(Cur, Revert(loc), c)} :
                    /\ ~post.aborted
                    /\ \A i \in 1..Len(terminal_child_list(post.nodes, c)) :
                          is_ended(post.nodes, terminal_child_list(post.nodes, c)[i])

\* C34 (as claimed): a Return statement, with or without a return
\* expression, applied to a live context with no forks leaves that context
\* ended, and a statement that follows it in the block is then not applied
\* to the context.
C34_ReturnEndsContext ==
    ~aborted =>
        \A c \in Ctxs(nodes), loc \in Locs :
            (~is_ended(nodes, c) /\ nodes[c].forks = <<>>) =>
                \A maybe_ret_expr \in {None, Some(NumberLiteral(1))} :
                    \A post \in {parse_ctx_statement(Cur, Return(loc, maybe_ret_expr), c)} :
                        /\ ~post.aborted
                        /\ is_ended(post.nodes, c)
                        /\ parse_ctx_statement(post, VariableDefinition(1, "y", None), c)
                              = post

\* C35 (as claimed): a named-argument revert applied to a live context
\* leaves that context killed at the statement's location, with the same
\* graph a positional Revert at that location leaves.
C35_RevertNamedArgsKills ==
    ~aborted =>
        \A c \in Ctxs(nodes), loc \in Locs :
            ~is_ended(nodes, c) =>
                \A post \in {parse_ctx_statement(Cur, RevertNamedArgs(loc), c)} :
                    /\ post.nodes[c].killed = Some(loc)
                    /\ post = parse_ctx_statement(Cur, Revert(loc), c)

\* ------------------------------------------------- path-condition claims
\* C36 (as claimed): add_ctx_dep(dep) on a context leaves every other
\* context's ctx_deps as it was, and the context's own ctx_deps keeps every
\* binding it had (the inherited ones included) and gains at most the
\* binding of dep.
C36_CtxDepsOnlyGrow ==
    \A c \in Ctxs(nodes), dep \in CVars(nodes) :
        \A post \in {add_ctx_dep(nodes, c, dep)} :
            /\ \A o \in Ctxs(nodes) \ {c} : post[o].ctx_deps = nodes[o].ctx_deps
            /\ nodes[c].ctx_deps \subseteq post[c].ctx_deps
            /\ post[c].ctx_deps \subseteq
                  nodes[c].ctx_deps \cup {[name |-> nodes[dep].name, var |-> dep]}

\* C36 (amended): path conditions are isolated between branches, and are
\* kept by name. In every step a context created by the step has its
\* parent's ctx_deps, and the ctx_deps of the contexts there before are
\* unchanged but for at most one context, whose ctx_deps changes by one
\* binding of a symbolic variable that takes the place of the binding of
\* the same name and leaves the bindings of other names as they were.
C36_CtxDepsIsolated ==
    [][ /\ \A s \in Ctxs(nodes') \ Ctxs(nodes) :
             /\ nodes'[s].parent_ctx # None
             /\ nodes'[s].ctx_deps = nodes[nodes'[s].parent_ctx[1]].ctx_deps
        /\ \A c \in Ctxs(nodes) :
             /\ c \in Ctxs(nodes')
             /\ nodes'[c].ctx_deps # nodes[c].ctx_deps =>
                   /\ \A o \in Ctxs(nodes) \ {c} :
                         nodes'[o].ctx_deps = nodes[o].ctx_deps
                   /\ \E dep \in CVars(nodes) :
                         /\ nodes[dep].ty # "Concrete"
                         /\ nodes'[c].ctx_deps =
                               {d \in nodes[c].ctx_deps : d.name # nodes[dep].name}
                                  \cup {[name |-> nodes[dep].name, var |-> dep]} ]_vars

\* C36 witness: a context bound to one version of x, a fork of it that has
\* since bound x to a newer version, and a sibling fork that still has the
\* binding it inherited.
C36_Witness ==
    \E p \in Ctxs(nodes), s \in Ctxs(nodes), t \in Ctxs(nodes) :
        /\ s # t
        /\ nodes[s].parent_ctx = Some(p) /\ nodes[t].parent_ctx = Some(p)
        /\ nodes[p].ctx_deps # {}
        /\ nodes[t].ctx_deps = nodes[p].ctx_deps
        /\ nodes[s].ctx_deps # nodes[p].ctx_deps
        /\ \A d \in nodes[s].ctx_deps : \E e \in nodes[p].ctx_deps :
              d.name = e.name /\ d.var # e.var
====
